---- MODULE Spec2Model ----
(***************************************************************************)
(* A model of text_browser.py: the bookmark and history stores (kept as    *)
(* text files, one record per line), and the navigation loop of main(),    *)
(* home(), search_and_select(), bookmark_manager(), chronology_manager()   *)
(* and show_page().                                                        *)
(*                                                                         *)
(* A Python string is a sequence of one-character strings.  None is the    *)
(* one-element sequence <<"None">>, which no text can equal because every  *)
(* element of a text is a single character.                                *)
(***************************************************************************)
EXTENDS Integers, Sequences, FiniteSets, TLC

None == <<"None">>

\* ---------------------------------------------------------------- strings

Digits == <<"0", "1", "2", "3", "4", "5", "6", "7", "8", "9">>

IsDigit(c) == \E d \in 1..10 : Digits[d] = c

DigitVal(c) == (CHOOSE d \in 1..10 : Digits[d] = c) - 1

IsSpace(c) == c \in {" ", "\n", "\t"}

\* str.strip(): leading and trailing whitespace removed
RECURSIVE lstrip(_)
lstrip(s) ==
  IF s # <<>> /\ IsSpace(Head(s)) THEN lstrip(Tail(s)) ELSE s

RECURSIVE rstrip(_)
rstrip(s) ==
  IF s # <<>> /\ IsSpace(s[Len(s)]) THEN rstrip(SubSeq(s, 1, Len(s) - 1)) ELSE s

strip(s) == rstrip(lstrip(s))

\* str.find(d, from i): the first index >= i at which d occurs in s, 0 if none
find(s, d, i) ==
  LET hits == {k \in i..(Len(s) - Len(d) + 1) : SubSeq(s, k, k + Len(d) - 1) = d}
  IN  IF hits = {} THEN 0 ELSE CHOOSE k \in hits : \A j \in hits : k <= j

\* str.split(d): the pieces of s between the non-overlapping occurrences of d,
\* scanned left to right
RECURSIVE split(_, _)
split(s, d) ==
  LET i == find(s, d, 1)
  IN  IF i = 0 THEN <<s>>
      ELSE <<SubSeq(s, 1, i - 1)>> \o split(SubSeq(s, i + Len(d), Len(s)), d)

\* the value of a non-empty digit string
RECURSIVE DigitsVal(_)
DigitsVal(s) ==
  IF Len(s) = 1 THEN DigitVal(s[1])
  ELSE 10 * DigitsVal(SubSeq(s, 1, Len(s) - 1)) + DigitVal(s[Len(s)])

AllDigits(s) == s # <<>> /\ \A i \in 1..Len(s) : IsDigit(s[i])

\* try: block = int(block)  except: block = 0
int_or_zero(s) ==
  LET t == strip(s)
  IN  IF AllDigits(t) THEN DigitsVal(t)
      ELSE IF t # <<>> /\ Head(t) = "-" /\ AllDigits(Tail(t)) THEN 0 - DigitsVal(Tail(t))
      ELSE 0

\* f"{b}" for an integer b
RECURSIVE NatStr(_)
NatStr(n) ==
  IF n < 10 THEN <<Digits[n + 1]>>
  ELSE NatStr(n \div 10) \o <<Digits[(n % 10) + 1]>>

str(n) == IF n < 0 THEN <<"-">> \o NatStr(0 - n) ELSE NatStr(n)

\* Python truthiness of an optional string: None and "" are false
Truthy(t) == t # None /\ t # <<>>

\* ------------------------------------------------------------ configuration

\* the settings read from ~/.tbrowser_config.json.  PARAS_PER_PAGE and
\* MAX_CHARS_PER_BLOCK have their default values; SEARCH_RESULTS_PER_PAGE and
\* CHRONOLOGY_LENGTH are set small, so that a short result list has two pages
\* and a short history is truncated
PARAS_PER_PAGE == 2
SEARCH_RESULTS_PER_PAGE == 2
CHRONOLOGY_LENGTH == 2

\* paginate(links, 5) in show_page
LINKS_PER_PAGE == 5
MAX_CHARS_PER_BLOCK == 2000

\* shutil.get_terminal_size().columns, and max(10, cols)
Cols == 80
usable_width == IF Cols < 10 THEN 10 ELSE Cols

\* SpecBm stops adding lines to the bookmark file at this many
MaxBmLines == 2

\* the field delimiter of both store files
Delim == <<"|", "|", "|">>

\* ---------------------------------------------------------------- stores

VARIABLES
  bmFile,      \* the lines of ~/.tbrowser_bookmarks
  histFile,    \* the lines of ~/.tbrowser_history
  lastSave,    \* history variable: the (url, block) pairs of the latest saves
  recent,      \* history variable: the urls given to add_history, latest first, each once
  call         \* the latest call of a function called on its own: its name, its
               \* arguments and what it returned

\* a reading of the bookmark file that knows the title|||url|||block form only
bookmark_line_new_format_only(raw) ==
  LET parts == split(strip(raw), Delim)
  IN  IF strip(raw) # <<>> /\ Len(parts) = 3
      THEN <<[title |-> IF parts[1] # <<>> THEN parts[1] ELSE None,
              url   |-> parts[2],
              block |-> int_or_zero(parts[3])]>>
      ELSE <<>>

\* one line of the bookmark file, as load_bookmarks reads it: the records it adds
bookmark_line(raw) ==
  LET line  == strip(raw)
      parts == split(line, Delim)
  IN  IF line = <<>> THEN <<>>
      ELSE IF Len(parts) = 3
        THEN <<[title |-> IF parts[1] # <<>> THEN parts[1] ELSE None,
                url   |-> parts[2],
                block |-> int_or_zero(parts[3])]>>
      ELSE IF Len(parts) = 2
        THEN <<[title |-> None, url |-> parts[1], block |-> int_or_zero(parts[2])]>>
      ELSE IF Len(parts) = 1
        THEN <<[title |-> None, url |-> parts[1], block |-> 0]>>
      ELSE <<>>

RECURSIVE load_bookmarks(_)
load_bookmarks(file) ==
  IF file = <<>> THEN <<>>
  ELSE bookmark_line(Head(file)) \o load_bookmarks(Tail(file))

\* f"{safe_title}|||{u}|||{b}"
bookmark_record_line(r) ==
  (IF Truthy(r.title) THEN r.title ELSE <<>>) \o Delim \o r.url \o Delim \o str(r.block)

write_bookmarks(bookmarks) ==
  [i \in 1..Len(bookmarks) |-> bookmark_record_line(bookmarks[i])]

\* the index of the first record whose url is url, 0 if none
FirstWithUrl(bookmarks, url) ==
  IF \E i \in 1..Len(bookmarks) : bookmarks[i].url = url
  THEN CHOOSE i \in 1..Len(bookmarks) :
         /\ bookmarks[i].url = url
         /\ \A j \in 1..(i - 1) : bookmarks[j].url # url
  ELSE 0

\* the bookmark file after save_bookmark(url, block_index, title) on file
save_bookmark(file, url, block_index, title) ==
  LET bookmarks == load_bookmarks(file)
      i         == FirstWithUrl(bookmarks, url)
  IN  IF i # 0
      THEN write_bookmarks([bookmarks EXCEPT ![i] =
             [title |-> IF Truthy(title) THEN title ELSE bookmarks[i].title,
              url   |-> url,
              block |-> block_index]])
      ELSE write_bookmarks(Append(bookmarks,
             [title |-> title, url |-> url, block |-> block_index]))

\* one line of the history file, as load_history reads it
history_line(raw) ==
  LET line  == strip(raw)
      parts == split(line, Delim)
  IN  IF line = <<>> THEN <<>>
      ELSE IF Len(parts) = 2 THEN <<[title |-> parts[1], url |-> parts[2]]>>
      ELSE <<>>

RECURSIVE load_history(_)
load_history(file) ==
  IF file = <<>> THEN <<>>
  ELSE history_line(Head(file)) \o load_history(Tail(file))

save_history(items) ==
  [i \in 1..Len(items) |->
     (IF Truthy(items[i].title) THEN items[i].title ELSE <<>>) \o Delim \o items[i].url]

RECURSIVE WithoutUrl(_, _)
WithoutUrl(items, url) ==
  IF items = <<>> THEN <<>>
  ELSE IF Head(items).url = url THEN WithoutUrl(Tail(items), url)
  ELSE <<Head(items)>> \o WithoutUrl(Tail(items), url)

Take(s, n) == SubSeq(s, 1, IF Len(s) < n THEN Len(s) ELSE n)

\* the history file after add_history(title, url) on file
add_history(file, title, url) ==
  LET hist    == WithoutUrl(load_history(file), url)
      newest  == [title |-> IF Truthy(title) THEN title ELSE <<>>, url |-> url]
  IN  save_history(Take(<<newest>> \o hist, CHRONOLOGY_LENGTH))

\* ------------------------------------------------------------- pagination

\* str.split(): the maximal runs of non-whitespace characters, in order
RECURSIVE words(_)
words(s) ==
  LET t == lstrip(s)
  IN  IF t = <<>> THEN <<>>
      ELSE LET stops == {i \in 1..Len(t) : IsSpace(t[i])}
               n     == IF stops = {} THEN Len(t) + 1
                        ELSE CHOOSE i \in stops : \A j \in stops : i <= j
           IN  <<SubSeq(t, 1, n - 1)>> \o words(SubSeq(t, n, Len(t)))

\* a loop that does not count the separating space when it tests the width
RECURSIVE wrap_loop_tight(_, _, _, _)
wrap_loop_tight(ws, width, current, lines) ==
  IF ws = <<>> THEN (IF current # <<>> THEN Append(lines, current) ELSE lines)
  ELSE LET w == Head(ws)
       IN  IF Len(current) + Len(w) > width
           THEN wrap_loop_tight(Tail(ws), width, w,
                                IF current # <<>> THEN Append(lines, current) ELSE lines)
           ELSE wrap_loop_tight(Tail(ws), width,
                                IF current = <<>> THEN w ELSE current \o <<" ">> \o w, lines)

\* the loop of wrap(): ws the words left, current the line being filled
RECURSIVE wrap_loop(_, _, _, _)
wrap_loop(ws, width, current, lines) ==
  IF ws = <<>> THEN (IF current # <<>> THEN Append(lines, current) ELSE lines)
  ELSE LET w == Head(ws)
       IN  IF Len(current) + Len(w) + (IF current # <<>> THEN 1 ELSE 0) > width
           THEN wrap_loop(Tail(ws), width, w,
                          IF current # <<>> THEN Append(lines, current) ELSE lines)
           ELSE wrap_loop(Tail(ws), width,
                          IF current = <<>> THEN w ELSE current \o <<" ">> \o w, lines)

\* a wrap that keeps the first line only
wrap_first_line(text, width) ==
  LET lines == wrap_loop(words(text), width, <<>>, <<>>)
  IN  IF lines = <<>> THEN lines ELSE <<lines[1]>>

wrap(text, width) == wrap_loop(words(text), width, <<>>, <<>>)

\* the words of text joined by single spaces
RECURSIVE join_words(_)
join_words(ws) ==
  IF ws = <<>> THEN <<>>
  ELSE IF Len(ws) = 1 THEN ws[1]
  ELSE ws[1] \o <<" ">> \o join_words(Tail(ws))

\* newlines to spaces, whitespace runs collapsed to one space, ends trimmed
clean_paragraph(text) == join_words(words(text))

\* the slices of n characters of para, without the shorter one at the end
chunks_no_tail(para, n) ==
  [k \in 1..(Len(para) \div n) |-> SubSeq(para, (k - 1) * n + 1, k * n)]

\* range(0, len(para), n) slices of para
RECURSIVE chunks(_, _)
chunks(para, n) ==
  IF Len(para) <= n THEN (IF para = <<>> THEN <<>> ELSE <<para>>)
  ELSE <<SubSeq(para, 1, n)>> \o chunks(SubSeq(para, n + 1, Len(para)), n)

\* the list `processed`: the paragraphs with each one longer than max_chars,
\* the MAX_CHARS_PER_BLOCK of the configuration, cut in chunks
RECURSIVE processed(_, _)
processed(paragraphs, max_chars) ==
  IF paragraphs = <<>> THEN <<>>
  ELSE (IF Len(Head(paragraphs)) <= max_chars THEN <<Head(paragraphs)>>
        ELSE chunks(Head(paragraphs), max_chars))
       \o processed(Tail(paragraphs), max_chars)

presplit(paragraphs) == processed(paragraphs, MAX_CHARS_PER_BLOCK)

\* the full slices of n items only, without the shorter one at the end
paginate_no_tail(items, n) ==
  [k \in 1..(Len(items) \div n) |-> SubSeq(items, (k - 1) * n + 1, k * n)]

\* chunk_paragraphs / paginate: consecutive slices of n items
RECURSIVE paginate(_, _)
paginate(items, n) ==
  IF items = <<>> THEN <<>>
  ELSE IF Len(items) <= n THEN <<items>>
  ELSE <<SubSeq(items, 1, n)>> \o paginate(SubSeq(items, n + 1, Len(items)), n)

\* the lines of one page on a terminal of cols columns: each paragraph
\* wrapped, then a blank line
RECURSIVE lines_of(_, _)
lines_of(block, cols) ==
  IF block = <<>> THEN <<>>
  ELSE wrap(clean_paragraph(Head(block)), IF cols < 10 THEN 10 ELSE cols) \o <<<<>>>>
       \o lines_of(Tail(block), cols)

page_lines(block) == lines_of(block, Cols)

NoReadableText ==
  <<"[", "N", "o", " ", "r", "e", "a", "d", "a", "b", "l", "e", " ",
    "t", "e", "x", "t", "]">>

\* build_text_pages under a configuration of max_chars characters a block, on
\* a terminal of cols columns
pages_of(paragraphs, max_chars, cols) ==
  IF paragraphs = <<>> THEN << <<NoReadableText>> >>
  ELSE LET groups == paginate(processed(paragraphs, max_chars), PARAS_PER_PAGE)
       IN  [i \in 1..Len(groups) |-> lines_of(groups[i], cols)]

build_text_pages(paragraphs) == pages_of(paragraphs, MAX_CHARS_PER_BLOCK, Cols)

\* ------------------------------------------------------- the world outside

Https == <<"h", "t", "t", "p", "s", ":", "/", "/">>
PageSeg == <<"/", "p", "a", "g", "e", "/">>

UrlA  == Https \o <<"a", ".", "b">>
UrlA2 == UrlA \o PageSeg \o <<"2">>
UrlA3 == UrlA \o PageSeg \o <<"3">>
UrlB  == Https \o <<"b", ".", "c">>
UrlB2 == UrlB \o PageSeg \o <<"2">>
UrlR  == Https \o <<"r", ".", "d">>
UrlC  == Https \o <<"c", ".", "d">>
UrlC2 == UrlC \o PageSeg \o <<"2">>

P1 == <<"p", "1">>
P2 == <<"p", "2">>
P3 == <<"p", "3">>
P4 == <<"p", "4">>
Q1 == <<"q", "1">>

Link(label, url) == [label |-> label, url |-> url]

\* what fetch + extract_single_page give for each url that answers: UrlA is a
\* two-page article with six links and an image whose next part UrlA2 repeats
\* P3 and adds P4; UrlA3 only repeats P4; UrlB is a short page with no links
\* whose title ends in a "|" and whose /page/2 has no paragraph
DocA ==
  [paragraphs |-> <<P1, P2, P3>>,
   links |-> <<Link(<<"b">>, UrlB), Link(<<"a">>, UrlA), Link(<<"b">>, UrlB),
               Link(<<"a">>, UrlA), Link(<<"b">>, UrlB), Link(<<"a">>, UrlA)>>,
   main_image |-> UrlA \o <<"/", "i">>,
   title |-> <<"A">>]

DocA2 ==
  [paragraphs |-> <<P3, P4>>, links |-> <<Link(<<"a">>, UrlA)>>,
   main_image |-> None, title |-> <<"A", "2">>]

DocA3 ==
  [paragraphs |-> <<P4>>, links |-> <<>>, main_image |-> None, title |-> <<"A", "3">>]

DocB ==
  [paragraphs |-> <<Q1>>, links |-> <<>>, main_image |-> None, title |-> None]

DocB2 ==
  [paragraphs |-> <<>>, links |-> <<>>, main_image |-> None, title |-> <<"B", "2">>]

DocC ==
  [paragraphs |-> <<P1>>, links |-> <<>>, main_image |-> None, title |-> <<"C">>]

\* a continuation that repeats a paragraph, under a title that ends in "|"
DocC2 ==
  [paragraphs |-> <<P4, P1, P4>>, links |-> <<>>, main_image |-> None,
   title |-> <<"C", " ", "|">>]

\* the urls a GET answers; UrlR answers only the HEAD of resolve_redirect
WebUrls == {UrlA, UrlA2, UrlA3, UrlB, UrlB2, UrlC, UrlC2}

Doc(u) ==
  CASE u = UrlA  -> DocA
    [] u = UrlA2 -> DocA2
    [] u = UrlA3 -> DocA3
    [] u = UrlB  -> DocB
    [] u = UrlB2 -> DocB2
    [] u = UrlC  -> DocC
    [] u = UrlC2 -> DocC2

\* resolve_redirect(url): r.url of a HEAD that follows redirects, or url itself
\* when the request fails
resolve_redirect(u) == IF u = UrlR THEN {u, UrlA} ELSE {u}

\* the query typed in the model
QueryX == <<"x">>

ResultsX ==
  <<[title |-> <<"a">>, url |-> UrlA], [title |-> <<"b">>, url |-> UrlB],
    [title |-> <<"r">>, url |-> UrlR]>>

\* what search(q) can return when the request succeeds: the engine lists
\* three results, or nothing at all
search_results(q) == {ResultsX, <<>>}

\* ------------------------------------------------------------- navigation

VARIABLES
  mode,               \* main: mode
  last_search_query,  \* main: last_search_query
  pc,                 \* where the program waits: a prompt; or "quit"; or "crashed"
                      \* (a request of search() raised), "crashed_none" (search(None)
                      \* raised TypeError); or "spin" (main loops, no branch matches)
  chain,              \* which call site of main runs show_page: "page" or "homechron"
  caller,             \* who called bookmark_manager / chronology_manager
  ss,                 \* the locals of search_and_select: pages, page_idx
  sp,                 \* the locals of show_page, and two history fields: sp.via,
                      \* the call that opened the reading session, and sp.sel, the
                      \* result list and page index a search result was picked from
  cmd                 \* history variable: the last command typed, the prompt it
                      \* was typed at and who had opened that prompt; for "b" also
                      \* the origin, via and sel of the session it left

storeVars == <<bmFile, histFile>>
ghostVars == <<lastSave, recent, call>>
mainVars == <<mode, last_search_query>>
vars == <<bmFile, histFile, lastSave, recent, call, mode, last_search_query,
          pc, chain, caller, ss, sp, cmd>>

NoSearch == [pages |-> <<>>, page_idx |-> 0]

NoPage ==
  [url |-> None, origin |-> "none", mode |-> "none", page |-> 0, paragraphs |-> <<>>,
   links |-> <<>>, main_image |-> None, page_title |-> None,
   text_pages |-> <<>>, link_pages |-> <<>>, via |-> "none", sel |-> NoSearch]

NoCall == [fn |-> "none", in |-> <<>>, out |-> <<>>]

NoCmd ==
  [name |-> "none", from |-> "none", caller |-> "none", origin |-> "none",
   via |-> "none", sel |-> NoSearch]

\* the prompt the program waits at: pc, with the view of a reading session
From ==
  IF pc = "reading"
  THEN (IF sp.mode = "links" THEN "reading_links" ELSE "reading_text")
  ELSE pc

\* the record of the command name typed at the prompt the action starts from
Cmd(name) == [NoCmd EXCEPT !.name = name, !.from = From, !.caller = caller]

\* a command none of the properties below is about
Other == [NoCmd EXCEPT !.name = "other"]

\* sys.exit(): the process ends and its locals with it; the files stay
Exit ==
  /\ pc' = "quit"
  /\ chain' = "none"
  /\ caller' = "none"
  /\ ss' = NoSearch
  /\ sp' = NoPage
  /\ UNCHANGED <<storeVars, ghostVars, mainVars>>

\* the record of "b" typed in a reading session
BackCmd == [Cmd("b") EXCEPT !.origin = sp.origin, !.via = sp.via, !.sel = sp.sel]

\* the program starts at the home prompt; both store files are empty
Started ==
  /\ bmFile = <<>>
  /\ histFile = <<>>
  /\ mode = "home"
  /\ last_search_query = None
  /\ pc = "home"
  /\ chain = "none"
  /\ caller = "none"
  /\ ss = NoSearch
  /\ sp = NoPage
  /\ cmd = NoCmd
  /\ call = NoCall

Init ==
  /\ Started
  /\ lastSave = <<>>
  /\ recent = <<>>

\* the locals of show_page(ru, o, sb) at its first prompt, d being what was
\* extracted from the page
\* a session that starts at the block it is given, whatever the document holds
Opened_unchecked_start(ru, o, sb, d, via, sel) ==
  [url |-> ru, origin |-> o, mode |-> "text",
   page |-> sb,
   paragraphs |-> d.paragraphs, links |-> d.links,
   main_image |-> d.main_image, page_title |-> d.title,
   text_pages |-> build_text_pages(d.paragraphs),
   link_pages |-> paginate(d.links, LINKS_PER_PAGE),
   via |-> via, sel |-> sel]

Opened(ru, o, sb, d, via, sel) ==
  LET tp == build_text_pages(d.paragraphs)
  IN  [url |-> ru, origin |-> o, mode |-> "text",
       page |-> IF 0 <= sb /\ sb < Len(tp) THEN sb ELSE 0,
       paragraphs |-> d.paragraphs, links |-> d.links,
       main_image |-> d.main_image, page_title |-> d.title,
       text_pages |-> tp,
       link_pages |-> paginate(d.links, LINKS_PER_PAGE),
       via |-> via, sel |-> sel]

\* show_page(url, origin, start_block) up to its first prompt, run from the call
\* site ch of main: the redirect is resolved, the page fetched and extracted;
\* a failure prints the error and waits for ENTER, a success records the visit
ShowPage(u, o, sb, ch, via) ==
  /\ chain' = ch
  /\ caller' = "none"
  /\ \E ru \in resolve_redirect(u) :
       \/ /\ pc' = "ack_open_error"
          /\ cmd' = Cmd("open_failed")
          /\ sp' = NoPage
          /\ histFile' = histFile
       \/ /\ ru \in WebUrls
          /\ LET d  == Doc(ru)
             IN  /\ sp' = Opened(ru, o, sb, d, via, IF via = "search" THEN ss ELSE NoSearch)
                 /\ histFile' = add_history(histFile,
                                   IF Truthy(d.title) THEN d.title ELSE ru, ru)
          /\ cmd' = Other
          /\ pc' = "reading"

\* search_and_select(query), listing from its last page instead of its first
SearchAndSelect_last_page(q) ==
  \/ /\ q = None
     /\ pc' = "crashed_none"
     /\ ss' = NoSearch
  \/ /\ q # None
     /\ pc' = "crashed"
     /\ ss' = NoSearch
  \/ /\ q # None
     /\ \E results \in search_results(q) :
          IF results = <<>>
          THEN /\ pc' = "ack_no_results"
               /\ ss' = NoSearch
          ELSE /\ pc' = "search_list"
               /\ ss' = [pages |-> paginate(results, SEARCH_RESULTS_PER_PAGE),
                         page_idx |-> Len(paginate(results, SEARCH_RESULTS_PER_PAGE)) - 1]

\* search_and_select(query) up to its first prompt.  search(None) raises
\* TypeError when the query is glued to the engine's url; a request that fails
\* raises too, and neither exception is caught anywhere; otherwise nothing is
\* found, or the first page is listed
SearchAndSelect(q) ==
  \/ /\ q = None
     /\ pc' = "crashed_none"
     /\ ss' = NoSearch
  \/ /\ q # None
     /\ pc' = "crashed"
     /\ ss' = NoSearch
  \/ /\ q # None
     /\ \E results \in search_results(q) :
          IF results = <<>>
          THEN /\ pc' = "ack_no_results"
               /\ ss' = NoSearch
          ELSE /\ pc' = "search_list"
               /\ ss' = [pages |-> paginate(results, SEARCH_RESULTS_PER_PAGE),
                         page_idx |-> 0]

\* bookmark_manager() up to its first prompt, reading the bookmark file `file`
BookmarkManager(file, who) ==
  /\ caller' = who
  /\ pc' = IF load_bookmarks(file) = <<>> THEN "ack_no_bookmarks" ELSE "bm_list"

\* chronology_manager() up to its first prompt
ChronologyManager(file, who) ==
  /\ caller' = who
  /\ pc' = IF load_history(file) = <<>> THEN "ack_no_history" ELSE "chron_list"

\* main's page mode: show_page(current_url, origin, start_block).  main writes
\* current_url, origin and start_block just before each such call and reads
\* them nowhere else, so they are the arguments here and no variables
PageMode(u, o, sb, via) ==
  /\ mode' = "page"
  /\ ShowPage(u, o, sb, "page", via)

\* main after show_page returned ("home",)
GoHome ==
  /\ mode' = "home"
  /\ pc' = "home"

\* ------------------------------------------------------------------ home()

\* str.lower() on the letters the model types
LowerChar(c) ==
  CASE c = "Q" -> "q" [] c = "B" -> "b" [] c = "M" -> "m" [] c = "C" -> "c"
    [] c = "I" -> "i" [] c = "F" -> "f" [] c = "L" -> "l" [] c = "H" -> "h"
    [] c = "T" -> "t" [] c = "P" -> "p" [] c = "S" -> "s" [] OTHER -> c

lower(s) == [i \in 1..Len(s) |-> LowerChar(s[i])]

startswith(s, d) == Len(d) <= Len(s) /\ SubSeq(s, 1, Len(d)) = d

Contains(s, d) == find(s, d, 1) # 0

\* a normalize_url that takes a dot for no sign of a url
normalize_url_scheme_only(raw) ==
  LET t == strip(raw)
  IN  IF startswith(t, <<"h", "t", "t", "p", ":", "/", "/">>) \/ startswith(t, Https)
        THEN t
      ELSE None

normalize_url(raw) ==
  LET t == strip(raw)
  IN  IF startswith(t, <<"h", "t", "t", "p", ":", "/", "/">>) \/ startswith(t, Https)
        THEN t
      ELSE IF Contains(t, <<".">>) THEN Https \o t
      ELSE None

\* the branch home() takes on the stripped input t, in the order of its tests
home_kind(t) ==
  LET low == lower(t)
  IN  IF t = <<>> THEN "blank"
      ELSE IF startswith(low, <<"i", "f", "l", " ">>)
        THEN (IF strip(SubSeq(t, 5, Len(t))) = <<>> THEN "usage" ELSE "ifl")
      ELSE IF startswith(t, <<"a", "i", " ">>) THEN "ai"
      ELSE IF low = <<"q">> THEN "quit"
      ELSE IF low = <<"b", "m">> THEN "bookmarks"
      ELSE IF low = <<"s">> THEN "settings"
      ELSE IF low = <<"c">> THEN "chronology"
      ELSE IF normalize_url(t) # None THEN "open_url"
      ELSE "search"

\* the lines typed at the home prompt; the one line of call.in when home() is
\* looked at on its own
HomeInputs ==
  IF call.fn = "home" THEN {call.in}
  ELSE { <<" ">>, <<"Q">>, <<"b", "m">>, <<"c">>, <<"a", ".", "b">>, UrlB, QueryX,
         <<"i", "f", "l", " ", "x">>, <<"s">> }

\* a blank line: home() prompts again
HomeBlank ==
  /\ pc = "home"
  /\ \E raw \in HomeInputs : home_kind(strip(raw)) = "blank"
  /\ UNCHANGED vars

\* "s", "ai <question>": the settings menu or the answer is shown, then home()
\* prompts again
HomeContinue ==
  /\ pc = "home"
  /\ \E raw \in HomeInputs : home_kind(strip(raw)) \in {"usage", "ai", "settings"}
  /\ UNCHANGED vars

HomeQuit ==
  /\ pc = "home"
  /\ cmd' = Cmd("q")
  /\ \E raw \in HomeInputs : home_kind(strip(raw)) = "quit"
  /\ Exit

\* "bm": main enters its bookmarks mode, which runs bookmark_manager()
HomeBookmarks ==
  /\ pc = "home"
  /\ cmd' = Other
  /\ \E raw \in HomeInputs : home_kind(strip(raw)) = "bookmarks"
  /\ mode' = "bookmarks"
  /\ BookmarkManager(bmFile, "main")
  /\ UNCHANGED <<storeVars, ghostVars, last_search_query, chain, ss, sp>>

\* "c": main stays in its home mode and runs chronology_manager() itself
HomeChronology ==
  /\ pc = "home"
  /\ cmd' = Other
  /\ \E raw \in HomeInputs : home_kind(strip(raw)) = "chronology"
  /\ ChronologyManager(histFile, "home")
  /\ UNCHANGED <<storeVars, ghostVars, mainVars, chain, ss, sp>>

\* a url: ("open_url", url, "direct")
HomeOpenUrl ==
  /\ pc = "home"
  /\ \E raw \in HomeInputs :
       /\ home_kind(strip(raw)) = "open_url"
       /\ PageMode(normalize_url(strip(raw)), "direct", 0, "home_url")
  /\ UNCHANGED <<bmFile, ghostVars, last_search_query, ss>>

\* anything else is a query: ("search", t)
HomeSearch ==
  /\ pc = "home"
  /\ cmd' = Other
  /\ \E raw \in HomeInputs :
       /\ home_kind(strip(raw)) = "search"
       /\ last_search_query' = strip(raw)
       /\ mode' = "search"
       /\ SearchAndSelect(strip(raw))
  /\ UNCHANGED <<storeVars, ghostVars, chain, caller, sp>>

\* "ifl <query>": search(q) is called inside home(); the first result is opened
\* with origin "search" and last_search_query is left as it was
HomeIfl ==
  /\ pc = "home"
  /\ \E raw \in HomeInputs :
       /\ home_kind(strip(raw)) = "ifl"
       /\ LET q == strip(SubSeq(strip(raw), 5, Len(strip(raw))))
          IN  \/ /\ pc' = "crashed"
                 /\ cmd' = Other
                 /\ UNCHANGED <<histFile, mainVars, chain, caller, sp>>
              \/ \E results \in search_results(q) :
                   IF results = <<>>
                   THEN UNCHANGED <<histFile, mainVars, pc, chain, caller, sp, cmd>>
                   ELSE /\ PageMode(results[1].url, "search", 0, "ifl")
                        /\ UNCHANGED last_search_query
  /\ UNCHANGED <<bmFile, ghostVars, ss>>

\* ------------------------------------------------------ search_and_select()

current_page == ss.pages[ss.page_idx + 1]

\* the numbers typed at a "number=open" prompt that lists n entries: each
\* listed number, and one below and one above them
Picks(n) == 0..(n + 1)

SearchQuit ==
  /\ pc = "search_list"
  /\ cmd' = Cmd("q")
  /\ Exit

\* "h": search_and_select returns None and main goes to its home mode
SearchHome ==
  /\ pc = "search_list"
  /\ cmd' = Other
  /\ mode' = "home"
  /\ pc' = "home"
  /\ ss' = NoSearch
  /\ UNCHANGED <<storeVars, ghostVars, last_search_query, chain, caller, sp>>

SearchBookmarks ==
  /\ pc = "search_list"
  /\ cmd' = Other
  /\ BookmarkManager(bmFile, "search")
  /\ UNCHANGED <<storeVars, ghostVars, mainVars, chain, ss, sp>>

SearchChronology ==
  /\ pc = "search_list"
  /\ cmd' = Other
  /\ ChronologyManager(histFile, "search")
  /\ UNCHANGED <<storeVars, ghostVars, mainVars, chain, ss, sp>>

SearchNext ==
  /\ pc = "search_list"
  /\ cmd' = Other
  /\ ss.page_idx < Len(ss.pages) - 1
  /\ ss' = [ss EXCEPT !.page_idx = @ + 1]
  /\ UNCHANGED <<storeVars, ghostVars, mainVars, pc, chain, caller, sp>>

SearchPrev ==
  /\ pc = "search_list"
  /\ cmd' = Other
  /\ ss.page_idx > 0
  /\ ss' = [ss EXCEPT !.page_idx = @ - 1]
  /\ UNCHANGED <<storeVars, ghostVars, mainVars, pc, chain, caller, sp>>

\* a number taken as an index of the first page of the list, whatever page is
\* displayed
SearchSelect_first_page ==
  /\ pc = "search_list"
  /\ \E i \in Picks(Len(ss.pages[1])) :
       /\ 1 <= i /\ i <= Len(ss.pages[1])
       /\ PageMode(ss.pages[1][i].url, "search", 0, "search")
  /\ ss' = NoSearch
  /\ UNCHANGED <<bmFile, ghostVars, last_search_query>>

\* a number of the displayed page: ("url", url, "search", 0)
SearchSelect ==
  /\ pc = "search_list"
  /\ \E i \in Picks(Len(current_page)) :
       /\ 1 <= i /\ i <= Len(current_page)
       /\ PageMode(current_page[i].url, "search", 0, "search")
  /\ ss' = NoSearch
  /\ UNCHANGED <<bmFile, ghostVars, last_search_query>>

\* next on the last page, p on the first, a number that is not listed, any
\* other text: "Invalid. Enter…" and the same page is listed again
SearchInvalid ==
  /\ pc = "search_list"
  /\ \/ ss.page_idx >= Len(ss.pages) - 1
     \/ ss.page_idx <= 0
     \/ \E i \in Picks(Len(current_page)) : ~(1 <= i /\ i <= Len(current_page))
  /\ UNCHANGED vars

\* "No results." / "Enter…": search_and_select returns None
AckNoResults ==
  /\ pc = "ack_no_results"
  /\ cmd' = Other
  /\ mode' = "home"
  /\ pc' = "home"
  /\ UNCHANGED <<storeVars, ghostVars, last_search_query, chain, caller, ss, sp>>

\* ------------------------------------- bookmark_manager(), chronology_manager()

\* the file after delete_bookmark(i): rewritten only when i is an index
delete_bookmark(file, i) ==
  LET b == load_bookmarks(file)
  IN  IF 0 <= i /\ i < Len(b)
      THEN write_bookmarks([k \in 1..(Len(b) - 1) |-> IF k <= i THEN b[k] ELSE b[k + 1]])
      ELSE file

\* bookmark_manager() returning None, with every caller treated as main
BmReturnNone_home ==
  /\ caller' = "none"
  /\ mode' = "home"
  /\ pc' = "home"
  /\ UNCHANGED <<storeVars, ghostVars, last_search_query, chain, ss, sp>>

\* bookmark_manager() returned None to its caller
BmReturnNone ==
  /\ caller' = "none"
  /\ \/ /\ caller = "main"
        /\ mode' = "home"
        /\ pc' = "home"
     \/ /\ caller = "search"
        /\ pc' = "search_list"
        /\ UNCHANGED mode
     \/ /\ caller = "page"
        /\ pc' = "reading"
        /\ UNCHANGED mode
  /\ UNCHANGED <<storeVars, ghostVars, last_search_query, chain, ss, sp>>

\* "q" in the bookmark list
BmBack ==
  /\ pc = "bm_list"
  /\ cmd' = Cmd("q")
  /\ BmReturnNone

\* "No bookmarks." / "Enter…"
AckNoBookmarks ==
  /\ pc = "ack_no_bookmarks"
  /\ cmd' = Other
  /\ BmReturnNone

\* "d<k>": delete_bookmark(k - 1), then the list is loaded and shown again
BmDelete ==
  /\ pc = "bm_list"
  /\ cmd' = Other
  /\ \E k \in Picks(Len(load_bookmarks(bmFile))) :
       /\ bmFile' = delete_bookmark(bmFile, k - 1)
       /\ BookmarkManager(bmFile', caller)
  /\ UNCHANGED <<histFile, ghostVars, mainVars, chain, ss, sp>>

\* a number of the list: (title, url, block) goes back to the caller
BmSelect ==
  /\ pc = "bm_list"
  /\ \E k \in Picks(Len(load_bookmarks(bmFile))) :
       LET b == load_bookmarks(bmFile)
       IN  /\ 1 <= k /\ k <= Len(b)
           /\ \/ /\ caller \in {"main", "search"} \/ (caller = "page" /\ chain = "page")
                 /\ PageMode(b[k].url, "bm", b[k].block,
                             "bm")
                 /\ UNCHANGED last_search_query
              \/ /\ caller = "page" /\ chain = "homechron"
                 /\ pc' = "home"
                 /\ chain' = "none"
                 /\ caller' = "none"
                 /\ sp' = NoPage
                 /\ cmd' = Other
                 /\ UNCHANGED <<histFile, mainVars>>
  /\ ss' = NoSearch
  /\ UNCHANGED <<bmFile, ghostVars>>

\* chronology_manager() returned None to its caller
ChronReturnNone ==
  /\ caller' = "none"
  /\ pc' = IF caller = "home" THEN "home" ELSE "search_list"
  /\ UNCHANGED <<storeVars, ghostVars, mainVars, chain, ss, sp>>

ChronBack ==
  /\ pc = "chron_list"
  /\ cmd' = Cmd("q")
  /\ ChronReturnNone

AckNoHistory ==
  /\ pc = "ack_no_history"
  /\ cmd' = Other
  /\ ChronReturnNone

\* a number of the list: ("chronology", title, url)
ChronSelect ==
  /\ pc = "chron_list"
  /\ \E k \in Picks(Len(load_history(histFile))) :
       LET h == load_history(histFile)
       IN  /\ 1 <= k /\ k <= Len(h)
           /\ \/ /\ caller = "home"
                 /\ ShowPage(h[k].url, "chronology", 0, "homechron", "chron_home")
                 /\ UNCHANGED mainVars
              \/ /\ caller = "search"
                 /\ PageMode(h[k].url, "chronology", 0, "chron_search")
                 /\ UNCHANGED last_search_query
  /\ ss' = NoSearch
  /\ UNCHANGED <<bmFile, ghostVars>>

\* the fetch error of show_page / "Enter…", ending the process
AckOpenError_exit ==
  /\ pc = "ack_open_error"
  /\ cmd' = [cmd EXCEPT !.name = "ack_open_error"]
  /\ Exit

\* the fetch error of show_page / "Enter…": show_page returns ("home",)
AckOpenError ==
  /\ pc = "ack_open_error"
  /\ cmd' = [cmd EXCEPT !.name = "ack_open_error"]
  /\ chain' = "none"
  /\ \/ /\ chain = "page"
        /\ GoHome
     \/ /\ chain = "homechron"
        /\ pc' = "home"
        /\ UNCHANGED mode
  /\ UNCHANGED <<storeVars, ghostVars, last_search_query, caller, ss, sp>>

\* ------------------------------------------------------------- show_page()

\* re.search(r"/page/(\d+)", url): the leftmost "/page/" that a digit follows,
\* 0 if there is none
page_match(url) ==
  LET hits == {i \in 1..Len(url) :
                 /\ i + Len(PageSeg) <= Len(url)
                 /\ SubSeq(url, i, i + Len(PageSeg) - 1) = PageSeg
                 /\ IsDigit(url[i + Len(PageSeg)])}
  IN  IF hits = {} THEN 0 ELSE CHOOSE i \in hits : \A j \in hits : i <= j

\* the digits of s from index i on
RECURSIVE digit_run(_, _)
digit_run(s, i) ==
  IF i <= Len(s) /\ IsDigit(s[i]) THEN <<s[i]>> \o digit_run(s, i + 1) ELSE <<>>

\* str.rfind(d): the last index at which d occurs in s, 0 if none
rfind(s, d) ==
  LET hits == {i \in 1..Len(s) : i + Len(d) - 1 <= Len(s) /\ SubSeq(s, i, i + Len(d) - 1) = d}
  IN  IF hits = {} THEN 0 ELSE CHOOSE i \in hits : \A j \in hits : j <= i

RECURSIVE rstrip_slash(_)
rstrip_slash(s) ==
  IF s # <<>> /\ s[Len(s)] = "/" THEN rstrip_slash(SubSeq(s, 1, Len(s) - 1)) ELSE s

\* the one url try_load_next_part fetches
next_part_url(url) ==
  LET m == page_match(url)
      page_number == IF m # 0 THEN DigitsVal(digit_run(url, m + Len(PageSeg))) ELSE 1
      base == IF m # 0 THEN SubSeq(url, 1, rfind(url, PageSeg) - 1) ELSE rstrip_slash(url)
  IN  base \o PageSeg \o str(page_number + 1)

InSeq(x, seq) == \E i \in 1..Len(seq) : seq[i] = x

\* the new paragraphs, each kept once
RECURSIVE not_in_once(_, _)
not_in_once(new_pars, existing) ==
  IF new_pars = <<>> THEN <<>>
  ELSE (IF InSeq(Head(new_pars), existing) THEN <<>> ELSE <<Head(new_pars)>>)
       \o not_in_once(Tail(new_pars), Append(existing, Head(new_pars)))

\* [p for p in new_pars if p not in existing]
RECURSIVE not_in(_, _)
not_in(new_pars, existing) ==
  IF new_pars = <<>> THEN <<>>
  ELSE (IF InSeq(Head(new_pars), existing) THEN <<>> ELSE <<Head(new_pars)>>)
       \o not_in(Tail(new_pars), existing)

\* try_load_next_part returning None, as a record of the same shape as its
\* five values
NoPart ==
  [paragraphs |-> <<>>, links |-> <<>>, main_image |-> None, title |-> None, url |-> None]

\* try_load_next_part without its two "nothing new" returns
try_load_next_part_no_dedup(url, paragraphs) ==
  LET next_url == next_part_url(url)
  IN  {NoPart} \cup
      (IF next_url \in WebUrls
       THEN {[paragraphs |-> paragraphs \o not_in(Doc(next_url).paragraphs, paragraphs),
              links |-> Doc(next_url).links,
              main_image |-> Doc(next_url).main_image,
              title |-> Doc(next_url).title,
              url |-> next_url]}
       ELSE {})

\* try_load_next_part with the new paragraphs put first
try_load_next_part_new_first(url, paragraphs) ==
  LET next_url == next_part_url(url)
  IN  {NoPart} \cup
      (IF next_url \in WebUrls /\ not_in(Doc(next_url).paragraphs, paragraphs) # <<>>
       THEN {[paragraphs |-> not_in(Doc(next_url).paragraphs, paragraphs) \o paragraphs,
              links |-> Doc(next_url).links,
              main_image |-> Doc(next_url).main_image,
              title |-> Doc(next_url).title,
              url |-> next_url]}
       ELSE {})

\* what try_load_next_part(url, paragraphs) can return: None (the fetch failed,
\* nothing was extracted, or nothing is new), or the five values
try_load_next_part(url, paragraphs) ==
  LET next_url == next_part_url(url)
  IN  {NoPart} \cup
      (IF next_url \in WebUrls /\ not_in(Doc(next_url).paragraphs, paragraphs) # <<>>
       THEN {[paragraphs |-> paragraphs \o not_in(Doc(next_url).paragraphs, paragraphs),
              links |-> Doc(next_url).links,
              main_image |-> Doc(next_url).main_image,
              title |-> Doc(next_url).title,
              url |-> next_url]}
       ELSE {})

is_bookmarked(file, url) == \E i \in 1..Len(load_bookmarks(file)) : load_bookmarks(file)[i].url = url

\* the file after delete_bookmark_by_url(url)
delete_bookmark_by_url(file, url) == write_bookmarks(WithoutUrl(load_bookmarks(file), url))

\* the top of show_page's loop in text mode: page is brought into range
Display(f) ==
  IF f.mode = "text"
  THEN [f EXCEPT !.page = IF @ >= Len(f.text_pages) THEN Len(f.text_pages) - 1
                          ELSE IF @ < 0 THEN 0 ELSE @]
  ELSE f

\* main after show_page returned ("open_url", u, o, 0): the page-mode chain
\* resolves the redirect before show_page does it again
ChainOpen(u, o, via) ==
  \/ /\ chain = "page"
     /\ \E u1 \in resolve_redirect(u) : ShowPage(u1, o, 0, "page", via)
     /\ UNCHANGED mainVars
  \/ /\ chain = "homechron"
     /\ ShowPage(u, o, 0, "homechron", via)
     /\ UNCHANGED mainVars

\* show_page returned ("home",)
ReturnHome ==
  /\ chain' = "none"
  /\ sp' = NoPage
  /\ \/ /\ chain = "page"
        /\ GoHome
     \/ /\ chain = "homechron"
        /\ pc' = "home"
        /\ UNCHANGED mode
  /\ UNCHANGED <<storeVars, ghostVars, last_search_query, caller, ss>>

ReadQuit ==
  /\ pc = "reading"
  /\ cmd' = Cmd("q")
  /\ Exit

ReadHome ==
  /\ pc = "reading"
  /\ cmd' = Other
  /\ ReturnHome

\* "b" with origin not search, bm or chronology: ("home",)
ReadBackHome ==
  /\ pc = "reading"
  /\ cmd' = BackCmd
  /\ sp.origin \notin {"search", "bm", "chronology"}
  /\ ReturnHome

\* "b" with origin search, bm or chronology: ("back", origin).  main's page mode
\* sets mode from it and loops; the chronology branch of the home mode loops on
\* to home()
ReadBack ==
  /\ pc = "reading"
  /\ cmd' = BackCmd
  /\ sp.origin \in {"search", "bm", "chronology"}
  /\ chain' = "none"
  /\ sp' = NoPage
  /\ \/ /\ chain = "page"
        /\ sp.origin = "search"
        /\ mode' = "search"
        /\ SearchAndSelect(last_search_query)
        /\ UNCHANGED caller
     \/ /\ chain = "page"
        /\ sp.origin = "bm"
        /\ mode' = "bookmarks"
        /\ BookmarkManager(bmFile, "main")
        /\ UNCHANGED ss
     \/ /\ chain = "page"
        /\ sp.origin = "chronology"
        /\ mode' = "chronology"
        /\ pc' = "spin"
        /\ UNCHANGED <<caller, ss>>
     \/ /\ chain = "homechron"
        /\ pc' = "home"
        /\ UNCHANGED <<mode, caller, ss>>
  /\ UNCHANGED <<storeVars, ghostVars, last_search_query>>

\* "bc": the second entry of the history is opened with origin "chronology"
ReadChronBack ==
  /\ pc = "reading"
  /\ LET hist == load_history(histFile)
     IN  \/ /\ Len(hist) < 2
            /\ UNCHANGED <<histFile, mainVars, pc, chain, caller, sp, cmd>>
         \/ /\ Len(hist) >= 2
            /\ ChainOpen(hist[2].url, "chronology", "bc")
  /\ UNCHANGED <<bmFile, ghostVars, ss>>

\* "m": save_bookmark(url, page, page_title), in text view and in link view
ReadSave ==
  /\ pc = "reading"
  /\ cmd' = Other
  /\ bmFile' = save_bookmark(bmFile, sp.url, sp.page, sp.page_title)
  /\ UNCHANGED <<histFile, ghostVars, mainVars, pc, chain, caller, ss, sp>>

ReadBookmarks ==
  /\ pc = "reading"
  /\ cmd' = Other
  /\ BookmarkManager(bmFile, "page")
  /\ UNCHANGED <<storeVars, ghostVars, mainVars, chain, ss, sp>>

\* "l" in text view
ReadLinks ==
  /\ pc = "reading"
  /\ cmd' = Other
  /\ sp.mode = "text"
  /\ sp' = Display([sp EXCEPT !.mode = "links", !.page = 0])
  /\ UNCHANGED <<storeVars, ghostVars, mainVars, pc, chain, caller, ss>>

\* next inside the document; a bookmarked url has its bookmark moved along
ReadNext ==
  /\ pc = "reading"
  /\ cmd' = Other
  /\ sp.mode = "text"
  /\ sp.page < Len(sp.text_pages) - 1
  /\ sp' = Display([sp EXCEPT !.page = @ + 1])
  /\ bmFile' = IF is_bookmarked(bmFile, sp.url)
               THEN save_bookmark(bmFile, sp.url, sp.page + 1, sp.page_title)
               ELSE bmFile
  /\ UNCHANGED <<histFile, ghostVars, mainVars, pc, chain, caller, ss>>

\* next on the last page: try_load_next_part; None gives "End of content."
ReadNextPart ==
  /\ pc = "reading"
  /\ sp.mode = "text"
  /\ ~(sp.page < Len(sp.text_pages) - 1)
  /\ \E result \in try_load_next_part(sp.url, sp.paragraphs) :
       \/ /\ result = NoPart
          /\ cmd' = Cmd("next_none")
          /\ UNCHANGED <<bmFile, sp>>
       \/ /\ result # NoPart
          /\ cmd' = Cmd("next_part")
          /\ sp' = Display([sp EXCEPT
                      !.paragraphs = result.paragraphs,
                      !.links = result.links,
                      !.main_image = result.main_image,
                      !.page_title = result.title,
                      !.url = result.url,
                      !.text_pages = build_text_pages(result.paragraphs),
                      !.link_pages = paginate(result.links, LINKS_PER_PAGE)])
          /\ bmFile' = save_bookmark(delete_bookmark_by_url(bmFile, sp.url),
                                     result.url, sp.page, result.title)
  /\ UNCHANGED <<histFile, ghostVars, mainVars, pc, chain, caller, ss>>

ReadPrev ==
  /\ pc = "reading"
  /\ cmd' = Other
  /\ sp.mode = "text"
  /\ sp.page > 0
  /\ sp' = Display([sp EXCEPT !.page = @ - 1])
  /\ UNCHANGED <<storeVars, ghostVars, mainVars, pc, chain, caller, ss>>

\* "i": the image is fetched and drawn, or its error is drawn; ENTER comes back
ReadImage ==
  /\ pc = "reading"
  /\ sp.mode = "text"
  /\ UNCHANGED vars

\* "t" in link view
LinksText ==
  /\ pc = "reading"
  /\ cmd' = Other
  /\ sp.mode = "links"
  /\ sp' = Display([sp EXCEPT !.mode = "text", !.page = 0])
  /\ UNCHANGED <<storeVars, ghostVars, mainVars, pc, chain, caller, ss>>

LinksNext ==
  /\ pc = "reading"
  /\ cmd' = Other
  /\ sp.mode = "links"
  /\ sp.page < Len(sp.link_pages) - 1
  /\ sp' = Display([sp EXCEPT !.page = @ + 1])
  /\ UNCHANGED <<storeVars, ghostVars, mainVars, pc, chain, caller, ss>>

LinksPrev ==
  /\ pc = "reading"
  /\ cmd' = Other
  /\ sp.mode = "links"
  /\ sp.page > 0
  /\ sp' = Display([sp EXCEPT !.page = @ - 1])
  /\ UNCHANGED <<storeVars, ghostVars, mainVars, pc, chain, caller, ss>>

\* a link opened with the origin of the page it is on
LinksOpen_keep_origin ==
  /\ pc = "reading"
  /\ sp.mode = "links"
  /\ sp.link_pages # <<>>
  /\ \E k \in Picks(LINKS_PER_PAGE) :
       /\ 0 <= sp.page /\ sp.page < Len(sp.link_pages)
       /\ 1 <= k /\ k <= Len(sp.link_pages[sp.page + 1])
       /\ ChainOpen(sp.link_pages[sp.page + 1][k].url, sp.origin, "link")
  /\ UNCHANGED <<bmFile, ghostVars, ss>>

\* a number of the displayed link page: ("open_url", link, "page", 0)
LinksOpen ==
  /\ pc = "reading"
  /\ sp.mode = "links"
  /\ sp.link_pages # <<>>
  /\ \E k \in Picks(LINKS_PER_PAGE) :
       /\ 0 <= sp.page /\ sp.page < Len(sp.link_pages)
       /\ 1 <= k /\ k <= Len(sp.link_pages[sp.page + 1])
       /\ ChainOpen(sp.link_pages[sp.page + 1][k].url, "page", "link")
  /\ UNCHANGED <<bmFile, ghostVars, ss>>

\* "s", "ai", p on the first page, next on the last link page, an unlisted
\* number, any other text: the same screen again
ReadOther ==
  /\ pc = "reading"
  /\ UNCHANGED vars

Next ==
  \/ HomeBlank
  \/ HomeContinue
  \/ HomeQuit
  \/ HomeBookmarks
  \/ HomeChronology
  \/ HomeOpenUrl
  \/ HomeSearch
  \/ HomeIfl
  \/ SearchQuit
  \/ SearchHome
  \/ SearchBookmarks
  \/ SearchChronology
  \/ SearchNext
  \/ SearchPrev
  \/ SearchSelect
  \/ SearchInvalid
  \/ AckNoResults
  \/ BmBack
  \/ AckNoBookmarks
  \/ BmDelete
  \/ BmSelect
  \/ ChronBack
  \/ AckNoHistory
  \/ ChronSelect
  \/ AckOpenError
  \/ ReadQuit
  \/ ReadHome
  \/ ReadBackHome
  \/ ReadBack
  \/ ReadChronBack
  \/ ReadSave
  \/ ReadBookmarks
  \/ ReadLinks
  \/ ReadNext
  \/ ReadNextPart
  \/ ReadPrev
  \/ ReadImage
  \/ LinksText
  \/ LinksNext
  \/ LinksPrev
  \/ LinksOpen
  \/ ReadOther

Spec == Init /\ [][Next]_vars

\* --------------------------------------------- the stores called on their own

\* a specification of the bookmark store alone: save_bookmark(url, block, title)
\* called again and again on a store that starts empty
BmUrls == {<<"u">>, <<"v">>}
BmTitles == {None, <<"T">>, <<"x", "|">>, <<"A", "|", "|", "|", "B">>}
MaxBlock == 2

InitBm ==
  /\ Started
  /\ lastSave = [u \in BmUrls |-> 0 - 1]
  /\ recent = <<>>

SaveBookmarkCall ==
  /\ \E u \in BmUrls, b \in 0..MaxBlock, t \in BmTitles :
       /\ bmFile' = save_bookmark(bmFile, u, b, t)
       /\ lastSave' = [lastSave EXCEPT ![u] = b]
  /\ Len(bmFile') <= MaxBmLines
  /\ UNCHANGED <<histFile, recent, call, mainVars, pc, chain, caller, ss, sp, cmd>>

NextBm == SaveBookmarkCall

SpecBm == InitBm /\ [][NextBm]_vars

\* a specification of the history store alone: add_history(title, url) called
\* again and again on a store that starts empty
HistUrls == {<<"u">>, <<"v">>, <<"w">>}
HistTitles == {<<"T">>, <<"x", "|">>, <<"A", "|", "|", "|", "B">>}

\* url put first in the list of the urls visited, latest first, each once
Visited(list, url) ==
  <<url>> \o SelectSeq(list, LAMBDA x : x # url)

AddHistoryCall ==
  /\ \E u \in HistUrls, t \in HistTitles :
       /\ histFile' = add_history(histFile, t, u)
       /\ recent' = Visited(recent, u)
  /\ UNCHANGED <<bmFile, lastSave, call, mainVars, pc, chain, caller, ss, sp, cmd>>

NextHist == AddHistoryCall

SpecHist == Init /\ [][NextHist]_vars

\* a specification of build_text_pages alone, called once on a list of
\* paragraphs, under the default configuration and terminal and under a
\* small block length and a narrow terminal
SmallBlock == 3
NarrowCols == 4

\* the concatenation of the strings of a list
RECURSIVE concat(_)
concat(parts) == IF parts = <<>> THEN <<>> ELSE Head(parts) \o concat(Tail(parts))

Pieces ==
  {<<"a", "b">>, <<" ">>, <<"\n">>,
   <<"c", "d", "e", "f", "g", "h", "i", "j", "k", "l", "m">>}

\* the paragraphs made of at most three pieces, and a few of them for the lists
\* of several paragraphs
Paragraphs ==
  {concat(parts) : parts \in {<<>>} \cup {<<x>> : x \in Pieces}
     \cup {<<x, y>> : x, y \in Pieces}
     \cup {<<x, y, z>> : x, y, z \in Pieces}}

TwoLines == <<"a", "b", " ", "c", "d", "e", "f", "g", "h", "i", "j", "k", "l", "m">>

FewParagraphs ==
  {<<"a", "b", " ", "a", "b">>,
   TwoLines,
   <<" ", "\n">>,
   <<"c", "d", "e", "f", "g", "h", "i", "j", "k", "l", "m", "\n", "a", "b">>}

\* a paragraph of 4500 characters
LongParagraph == [i \in 1..4500 |-> "a"]

\* a paragraph of short words that fill more than one line of ten columns
ManyWords ==
  <<"a", "b", " ", "a", "b", " ", "a", "b", " ", "a", "b", " ", "a", "b", " ", "a", "b">>

ParagraphLists ==
  {<<>>} \cup {<<x>> : x \in Paragraphs}
    \cup {<<x, y>> : x, y \in FewParagraphs}
    \cup {<<x, y, z>> : x, y, z \in FewParagraphs}

\* the lists under both block lengths, the long paragraph under the default one
PageInputs ==
  (ParagraphLists \X {SmallBlock, MAX_CHARS_PER_BLOCK})
    \cup {<<<<LongParagraph>>, MAX_CHARS_PER_BLOCK>>,
          <<<<TwoLines, LongParagraph>>, MAX_CHARS_PER_BLOCK>>,
          <<<<ManyWords>>, MAX_CHARS_PER_BLOCK>>,
          <<<<ManyWords, TwoLines, ManyWords>>, MAX_CHARS_PER_BLOCK>>}

BuildTextPagesCall ==
  /\ call = NoCall
  /\ \E input \in PageInputs, c \in {NarrowCols, Cols} :
       LET ps == input[1]
           n  == input[2]
       IN
       call' = [fn  |-> "build_text_pages",
                in  |-> [paragraphs |-> ps, max_chars |-> n, cols |-> c],
                out |-> [processed |-> processed(ps, n),
                         pages |-> pages_of(ps, n, c)]]
  /\ UNCHANGED <<storeVars, lastSave, recent, mainVars, pc, chain, caller, ss, sp, cmd>>

NextPages == BuildTextPagesCall

SpecPages == Init /\ [][NextPages]_vars

\* --------------------------------------- the redirect/tracking normalizer

DdgHost == <<"d", "u", "c", "k", "d", "u", "c", "k", "g", "o", ".", "c", "o", "m">>

Letters ==
  {"a", "b", "c", "d", "e", "f", "g", "h", "i", "j", "k", "l", "m", "n", "o", "p",
   "q", "r", "s", "t", "u", "v", "w", "x", "y", "z", "H", "T", "P", "S"}

\* urllib.parse.scheme_chars: letters, digits and "+-."
IsSchemeChar(c) == c \in Letters \/ IsDigit(c) \/ c \in {"+", "-", "."}

\* the first index >= i of s that holds one of cs, Len(s) + 1 if none
first_of(s, cs, i) ==
  LET hits == {k \in i..Len(s) : s[k] \in cs}
  IN  IF hits = {} THEN Len(s) + 1 ELSE CHOOSE k \in hits : \A j \in hits : k <= j

\* urllib.parse.urlparse on a url without ";": scheme (lower case), netloc,
\* path, query and fragment
urlparse(url) ==
  LET i          == find(url, <<":">>, 1)
      has_scheme == /\ i > 1
                    /\ url[1] \in Letters
                    /\ \A k \in 1..(i - 1) : IsSchemeChar(url[k])
      scheme     == IF has_scheme THEN lower(SubSeq(url, 1, i - 1)) ELSE <<>>
      r1         == IF has_scheme THEN SubSeq(url, i + 1, Len(url)) ELSE url
      has_netloc == startswith(r1, <<"/", "/">>)
      delim      == first_of(r1, {"/", "?", "#"}, 3)
      netloc     == IF has_netloc THEN SubSeq(r1, 3, delim - 1) ELSE <<>>
      r2         == IF has_netloc THEN SubSeq(r1, delim, Len(r1)) ELSE r1
      h          == find(r2, <<"#">>, 1)
      fragment   == IF h = 0 THEN <<>> ELSE SubSeq(r2, h + 1, Len(r2))
      r3         == IF h = 0 THEN r2 ELSE SubSeq(r2, 1, h - 1)
      q          == find(r3, <<"?">>, 1)
      query      == IF q = 0 THEN <<>> ELSE SubSeq(r3, q + 1, Len(r3))
      path       == IF q = 0 THEN r3 ELSE SubSeq(r3, 1, q - 1)
  IN  [scheme |-> scheme, netloc |-> netloc, path |-> path,
       query |-> query, fragment |-> fragment]

\* urllib.parse.urlunparse of the parts of a url with a netloc
urlunparse(p) ==
  LET u1 == IF p.netloc # <<>>
            THEN <<"/", "/">> \o p.netloc
                 \o (IF p.path # <<>> /\ p.path[1] # "/" THEN <<"/">> ELSE <<>>) \o p.path
            ELSE p.path
      u2 == IF p.scheme # <<>> THEN p.scheme \o <<":">> \o u1 ELSE u1
      u3 == IF p.query # <<>> THEN u2 \o <<"?">> \o p.query ELSE u2
  IN  IF p.fragment # <<>> THEN u3 \o <<"#">> \o p.fragment ELSE u3

\* the characters the escapes of the urls below stand for
Escapes ==
  (<<"3", "A">> :> ":") @@ (<<"2", "F">> :> "/") @@ (<<"3", "F">> :> "?")
    @@ (<<"3", "D">> :> "=") @@ (<<"2", "6">> :> "&") @@ (<<"2", "5">> :> "%")
    @@ (<<"2", "3">> :> "#") @@ (<<"2", "0">> :> " ")

\* urllib.parse.unquote: every %XX escape replaced by its character
RECURSIVE unquote(_)
unquote(s) ==
  LET hits == {k \in 1..(Len(s) - 2) :
                 s[k] = "%" /\ SubSeq(s, k + 1, k + 2) \in DOMAIN Escapes}
  IN  IF hits = {} THEN s
      ELSE LET k == CHOOSE h \in hits : \A j \in hits : h <= j
           IN  SubSeq(s, 1, k - 1) \o <<Escapes[SubSeq(s, k + 1, k + 2)]>>
               \o unquote(SubSeq(s, k + 3, Len(s)))

plus_to_space(s) == [i \in 1..Len(s) |-> IF s[i] = "+" THEN " " ELSE s[i]]

\* parse_qs(query)[name]: the decoded non-blank values of the fields of query
\* whose decoded name is name, in order
RECURSIVE values_of(_, _)
values_of(fields, name) ==
  IF fields = <<>> THEN <<>>
  ELSE LET f  == Head(fields)
           e  == find(f, <<"=">>, 1)
           n  == unquote(plus_to_space(SubSeq(f, 1, e - 1)))
           v  == unquote(plus_to_space(SubSeq(f, e + 1, Len(f))))
       IN  (IF e # 0 /\ e < Len(f) /\ n = name THEN <<v>> ELSE <<>>)
           \o values_of(Tail(fields), name)

parse_qs(query, name) == values_of(split(query, <<"&">>), name)

\* STRIP_DDG_TRACKING switched off: the url as it is
strip_duckduckgo_tracking_off(url) == url

strip_duckduckgo_tracking(url) ==
  LET p == urlparse(url)
  IN  IF ~Contains(p.netloc, DdgHost) THEN url
      ELSE urlunparse([p EXCEPT !.query = <<>>])

Uddg == <<"u", "d", "d", "g">>

unwrap_duckduckgo_redirect(url0) ==
  LET url == IF startswith(url0, <<"/", "/", "d", "u", "c", "k", "d", "u", "c", "k", "g", "o", ".", "c", "o", "m", "/", "l", "/", "?">>)
             THEN <<"h", "t", "t", "p", "s", ":">> \o url0 ELSE url0
      p   == urlparse(url)
      qs  == parse_qs(p.query, Uddg)
  IN  IF Contains(p.netloc, DdgHost) /\ startswith(p.path, <<"/", "l">>) /\ qs # <<>>
      THEN unquote(qs[1])
      ELSE url

unwrap_generic_redirect(url) ==
  strip_duckduckgo_tracking(unwrap_duckduckgo_redirect(url))

\* a specification of unwrap_generic_redirect alone, called once on a url: a
\* destination, a destination in a redirect wrapper, or a wrapper in a wrapper

\* urllib.parse.quote(s, safe=""), as the search engine writes a destination
\* into its wrapper
Reserved == {Escapes[x] : x \in DOMAIN Escapes}

RECURSIVE quote(_)
quote(s) ==
  LET k == first_of(s, Reserved, 1)
  IN  IF k > Len(s) THEN s
      ELSE SubSeq(s, 1, k - 1)
           \o <<"%">> \o (CHOOSE x \in DOMAIN Escapes : Escapes[x] = s[k])
           \o quote(SubSeq(s, k + 1, Len(s)))

WrapperHead == <<"/", "/", "d", "u", "c", "k", "d", "u", "c", "k", "g", "o", ".", "c", "o", "m", "/", "l", "/", "?", "u", "d", "d", "g", "=">>
Rut == <<"&", "r", "u", "t", "=", "1">>

Destinations ==
  {<<>>,
   <<"h", "t", "t", "p", "s", ":", "/", "/", "x", ".", "c", "o", "m", "/", "a", "?", "b", "=", "1">>,
   <<"h", "t", "t", "p", "s", ":", "/", "/", "d", "u", "c", "k", "d", "u", "c", "k", "g", "o", ".", "c", "o", "m", "/", "?", "q", "=", "x", "&", "t", "=", "h">>,
   <<"h", "t", "t", "p", "s", ":", "/", "/", "h", "t", "m", "l", ".", "d", "u", "c", "k", "d", "u", "c", "k", "g", "o", ".", "c", "o", "m", "/", "h", "t", "m", "l", "/", "?", "q", "=", "x", "#", "t", "o", "p">>,
   <<"x", ".", "c", "o", "m", "/", "a", "?", "b", "=", "1">>,
   <<"H", "T", "T", "P", "S", ":", "/", "/", "d", "u", "c", "k", "d", "u", "c", "k", "g", "o", ".", "c", "o", "m", "/", "?", "q", "=", "x">>,
   <<"h", "t", "t", "p", "s", ":", "/", "/", "x", ".", "c", "o", "m", "/", "a", "%", "2", "F", "b", "?", "c", "=", "%", "3", "D", "1">>,
   <<"h", "t", "t", "p", "s", ":", "/", "/", "d", "u", "c", "k", "d", "u", "c", "k", "g", "o", ".", "c", "o", "m", "/", "l", "/", "?", "k", "h", "=", "1">>,
   <<"h", "t", "t", "p", "s", ":", "/", "/", "d", "u", "c", "k", "d", "u", "c", "k", "g", "o", ".", "c", "o", "m">>,
   <<"h", "t", "t", "p", "s", ":", "/", "/", "d", "u", "c", "k", "d", "u", "c", "k", "g", "o", ".", "c", "o", "m", "/", "l", "/", "?", "u", "d", "d", "g", "=">>,
   <<"h", "t", "t", "p", "s", ":", "/", "/", "x", ".", "c", "o", "m", "/", "?", "u", "=", "d", "u", "c", "k", "d", "u", "c", "k", "g", "o", ".", "c", "o", "m">>}

\* dest in a wrapper: protocol-relative or absolute, escaped or not, alone in
\* the query or followed by another field
Wrappers(dests) ==
  {pre \o WrapperHead \o (IF esc THEN quote(d) ELSE d) \o suf :
     pre \in {<<>>, <<"h", "t", "t", "p", "s", ":">>, <<"h", "t", "t", "p", ":">>}, d \in dests,
     esc \in BOOLEAN, suf \in {<<>>, Rut}}

NormalizerInputs ==
  Destinations \cup Wrappers(Destinations)
    \cup {<<"h", "t", "t", "p", "s", ":">> \o WrapperHead \o quote(w) : w \in Wrappers(Destinations)}

UnwrapGenericRedirectCall ==
  /\ call = NoCall
  /\ \E u \in NormalizerInputs :
       call' = [fn |-> "unwrap_generic_redirect", in |-> u,
                out |-> unwrap_generic_redirect(u)]
  /\ UNCHANGED <<storeVars, lastSave, recent, mainVars, pc, chain, caller, ss, sp, cmd>>

NextUrl == UnwrapGenericRedirectCall

SpecUrl == Init /\ [][NextUrl]_vars

\* a specification of the home prompt alone: one line typed at it, with both
\* stores empty or one record in each
HomeLines ==
  {<<" ">>,
   <<>>,
   <<"Q">>,
   <<"q">>,
   <<"b", "m">>,
   <<"B", "M">>,
   <<"c">>,
   <<"C">>,
   <<"s">>,
   <<"S">>,
   <<"a", "i", " ", "x">>,
   <<"A", "I", " ", "x">>,
   <<"a", "i">>,
   <<"i", "f", "l", " ", "x">>,
   <<"I", "F", "L", " ", "x">>,
   <<"i", "f", "l", " ", "a", ".", "b">>,
   <<"i", "f", "l">>,
   <<"a", ".", "b">>,
   <<" ", "a", ".", "b", " ">>,
   <<"h", "t", "t", "p", "s", ":", "/", "/", "b", ".", "c">>,
   <<"h", "t", "t", "p", ":", "/", "/", "a", ".", "b">>,
   <<"x">>,
   <<"x", " ", "y">>,
   <<"g", "o", " ", "h", "t", "t", "p", ":", "/", "/", "x">>,
   <<"f", "t", "p", ":", "/", "/", "x">>,
   <<"q", ".">>,
   <<"b", "m", " ", "c">>}

InitHome ==
  /\ \E filled \in BOOLEAN :
       /\ bmFile = IF filled THEN save_bookmark(<<>>, UrlA, 1, <<"A">>) ELSE <<>>
       /\ histFile = IF filled THEN add_history(<<>>, <<"A">>, UrlA) ELSE <<>>
  /\ lastSave = <<>>
  /\ recent = <<>>
  /\ call \in {[fn |-> "home", in |-> raw, out |-> <<>>] : raw \in HomeLines}
  /\ mode = "home"
  /\ last_search_query = None
  /\ pc = "home"
  /\ chain = "none"
  /\ caller = "none"
  /\ ss = NoSearch
  /\ sp = NoPage
  /\ cmd = NoCmd

NextHome ==
  \/ HomeBlank
  \/ HomeContinue
  \/ HomeQuit
  \/ HomeBookmarks
  \/ HomeChronology
  \/ HomeOpenUrl
  \/ HomeSearch
  \/ HomeIfl

SpecHome == InitHome /\ [][NextHome]_vars

\* a specification of one reading session alone: a page typed at Home is open,
\* short or long, with no link, with six or with eleven, and the reader moves
\* in it, changes view and saves bookmarks
ManyLinks == [i \in 1..11 |-> Link(<<"b">>, UrlB)]

ReadDocs ==
  {[paragraphs |-> ps, links |-> SubSeq(ManyLinks, 1, n), main_image |-> None,
    title |-> <<"A">>] :
     ps \in {<<P1>>, <<P1, P2, P3>>, <<P1, P2, P3, P4, Q1>>}, n \in {0, 6, 11}}

InitRead ==
  /\ \E d \in ReadDocs :
       /\ sp = Opened(UrlA, "direct", 0, d, "home_url", NoSearch)
       /\ histFile = add_history(<<>>, d.title, UrlA)
  /\ bmFile = <<>>
  /\ lastSave = <<>>
  /\ recent = <<>>
  /\ call = NoCall
  /\ mode = "page"
  /\ last_search_query = None
  /\ pc = "reading"
  /\ chain = "page"
  /\ caller = "none"
  /\ ss = NoSearch
  /\ cmd = Other

NextRead ==
  \/ ReadSave
  \/ ReadLinks
  \/ ReadNext
  \/ ReadPrev
  \/ LinksText
  \/ LinksNext
  \/ LinksPrev

SpecRead == InitRead /\ [][NextRead]_vars

\* a specification of the opening of a PDF document alone: its url is typed at
\* Home again and again, and the request, the parser and the pages of the
\* document are what they may be

UrlPdf == UrlA \o <<"/", "x", ".", "p", "d", "f">>

PdfFetchError == <<"[", "P", "D", "F", " ", "f", "e", "t", "c", "h", " ", "e", "r", "r", "o", "r", "]">>
PdfParseError == <<"[", "P", "D", "F", " ", "p", "a", "r", "s", "e", " ", "e", "r", "r", "o", "r", "]">>
PdfNoText == <<"[", "P", "D", "F", " ", "c", "o", "n", "t", "a", "i", "n", "s", " ", "n", "o", " ", "e", "x", "t", "r", "a", "c", "t", "a", "b", "l", "e", " ", "t", "e", "x", "t", "]">>
PdfDocument == <<"P", "D", "F", " ", "D", "o", "c", "u", "m", "e", "n", "t">>

\* what page.extract_text() gives for the pages of a document
PageTexts == {<<>>, <<"t", "1">>, <<" ", "t", "2", "\n">>}

PdfFiles ==
  {[fetch |-> "ok", parse |-> "ok", pages |-> pages, title |-> t] :
     pages \in {<<>>} \cup {<<x>> : x \in PageTexts} \cup {<<x, y>> : x, y \in PageTexts}
                \cup {<<x, y, z>> : x, y, z \in PageTexts},
     t \in {None, <<"T">>}}
    \cup {[fetch |-> "error", parse |-> "ok", pages |-> <<>>, title |-> None],
          [fetch |-> "ok", parse |-> "error", pages |-> <<>>, title |-> None]}

\* extract_pdf_text(url), w being what the url serves: a list of one message,
\* or the pair of the paragraphs and the title
extract_pdf_text(w) ==
  IF w.fetch = "error" THEN <<PdfFetchError>>
  ELSE IF w.parse = "error" THEN <<PdfParseError>>
  ELSE LET texts      == [i \in 1..Len(w.pages) |-> clean_paragraph(w.pages[i])]
           paragraphs == SelectSeq(texts, LAMBDA t : strip(t) # <<>>)
       IN  IF paragraphs = <<>> THEN <<PdfNoText>>
           ELSE <<paragraphs, w.title>>

\* the url typed at Home: main's page mode calls show_page, which takes the PDF
\* branch; "paragraphs, pdf_title = ..." raises unless the value has two
\* elements, and the exception is printed like any failure of the open
HomeOpenPdf ==
  /\ pc = "home"
  /\ normalize_url(SubSeq(UrlPdf, Len(Https) + 1, Len(UrlPdf))) = UrlPdf
  /\ mode' = "page"
  /\ chain' = "page"
  /\ caller' = "none"
  /\ \E w \in PdfFiles :
       LET r == extract_pdf_text(w)
       IN  /\ call' = [fn |-> "extract_pdf_text", in |-> w, out |-> r]
           /\ IF Len(r) # 2
              THEN /\ pc' = "ack_open_error"
                   /\ cmd' = Cmd("open_failed")
                   /\ sp' = NoPage
                   /\ histFile' = histFile
              ELSE LET title == IF Truthy(r[2]) THEN r[2] ELSE PdfDocument
                       d     == [paragraphs |-> r[1], links |-> <<>>,
                                 main_image |-> None, title |-> title]
                   IN  /\ sp' = Opened(UrlPdf, "direct", 0, d, "home_url", NoSearch)
                       /\ histFile' = add_history(histFile, title, UrlPdf)
                       /\ cmd' = Other
                       /\ pc' = "reading"
  /\ UNCHANGED <<bmFile, lastSave, recent, last_search_query, ss>>

NextPdf ==
  \/ HomeOpenPdf
  \/ AckOpenError
  \/ ReadHome
  \/ ReadNext
  \/ ReadPrev

SpecPdf == Init /\ [][NextPdf]_vars

\* a specification of the loading of the two stores alone: load_bookmarks() or
\* load_history() called once on a store file that is missing, that exists
\* and cannot be opened or decoded, or that holds up to three lines

StoreLines ==
  {<<"T", "|", "|", "|", "u", "|", "|", "|", "1">>,
   <<"v", "|", "|", "|", "2">>,
   <<"w">>,
   <<"|", "|", "|", "u", "|", "|", "|", "5">>,
   <<"u", "|", "|", "|", "x">>,
   <<"a", "|", "|", "|", "b", "|", "|", "|", "c", "|", "|", "|", "d">>,
   <<" ">>}

StoreFiles ==
  {[exists |-> FALSE, readable |-> FALSE, lines |-> <<>>],
   [exists |-> TRUE, readable |-> FALSE, lines |-> <<>>]}
    \cup {[exists |-> TRUE, readable |-> TRUE, lines |-> ls] :
            ls \in {<<>>} \cup {<<x>> : x \in StoreLines}
                   \cup {<<x, y>> : x, y \in StoreLines}
                   \cup {<<x, y, z>> : x, y, z \in StoreLines}}

\* load_bookmarks() on the file f: no file gives the empty list, open() or the
\* reading of a line that raises is caught nowhere
LoadBookmarks(f) ==
  IF ~f.exists THEN [raised |-> FALSE, items |-> <<>>, file |-> f]
  ELSE IF ~f.readable THEN [raised |-> TRUE, items |-> <<>>, file |-> f]
  ELSE [raised |-> FALSE, items |-> load_bookmarks(f.lines), file |-> f]

\* load_history() on the file f: no file gives the empty list and an empty file
\* is created
LoadHistory(f) ==
  IF ~f.exists
  THEN [raised |-> FALSE, items |-> <<>>,
        file |-> [exists |-> TRUE, readable |-> TRUE, lines |-> <<>>]]
  ELSE IF ~f.readable THEN [raised |-> TRUE, items |-> <<>>, file |-> f]
  ELSE [raised |-> FALSE, items |-> load_history(f.lines), file |-> f]

LoadBookmarksCall ==
  /\ call = NoCall
  /\ \E f \in StoreFiles :
       call' = [fn |-> "load_bookmarks", in |-> f, out |-> LoadBookmarks(f)]
  /\ UNCHANGED <<storeVars, lastSave, recent, mainVars, pc, chain, caller, ss, sp, cmd>>

LoadHistoryCall ==
  /\ call = NoCall
  /\ \E f \in StoreFiles :
       call' = [fn |-> "load_history", in |-> f, out |-> LoadHistory(f)]
  /\ UNCHANGED <<storeVars, lastSave, recent, mainVars, pc, chain, caller, ss, sp, cmd>>

NextLoad ==
  \/ LoadBookmarksCall
  \/ LoadHistoryCall

SpecLoad == Init /\ [][NextLoad]_vars

\* ------------------------------------------------------- extract_single_page

\* A parsed document is the sequence of its elements in document order; each
\* names its tag, its parent (0: the document itself), the text that stands
\* directly in it, and the value of its one attribute (href of a, src of img,
\* content of a meta property="og:image"; None: absent).
Node(tag, parent, text, attr) ==
  [tag |-> tag, parent |-> parent, text |-> text, attr |-> attr]

\* None where an element is expected (an element is a number)
NoElement == 0 - 1

\* the element i is the element r or lies inside it
RECURSIVE InSubtree(_, _, _)
InSubtree(doc, i, r) ==
  i = r \/ (i # 0 /\ InSubtree(doc, doc[i].parent, r))

\* for tag in soup(["script", "style", "nav", "footer", "header"]): tag.decompose()
\* the elements that remain
decompose(doc) ==
  {i \in 1..Len(doc) :
     ~\E r \in 1..Len(doc) :
        doc[r].tag \in {"script", "style", "nav", "footer", "header"} /\ InSubtree(doc, i, r)}

\* the members of a set of numbers in increasing order
RECURSIVE Ascending(_)
Ascending(S) ==
  IF S = {} THEN <<>>
  ELSE LET m == CHOOSE x \in S : \A y \in S : x <= y
       IN  <<m>> \o Ascending(S \ {m})

\* r.find_all(tags): the remaining elements inside r with one of the tags, in
\* document order
find_all(doc, r, tags) ==
  Ascending({i \in decompose(doc) : i # r /\ InSubtree(doc, i, r) /\ doc[i].tag \in tags})

\* sep.join(strings)
RECURSIVE join(_, _)
join(strings, sep) ==
  IF strings = <<>> THEN <<>>
  ELSE IF Len(strings) = 1 THEN strings[1]
  ELSE strings[1] \o sep \o join(Tail(strings), sep)

\* r.get_text(sep, strip=True): the texts of r and of what remains inside it,
\* each stripped, the empty ones left out, joined by sep
get_text(doc, r, sep) ==
  LET inside  == Ascending({i \in decompose(doc) : InSubtree(doc, i, r)})
      texts   == [k \in 1..Len(inside) |-> strip(doc[inside[k]].text)]
  IN  join(SelectSeq(texts, LAMBDA t : t # <<>>), sep)

\* a sort by size that puts the smallest first and is then turned round
RECURSIVE sort_ascending(_)
sort_ascending(c) ==
  IF c = <<>> THEN <<>>
  ELSE LET rest == sort_ascending(Tail(c))
           k    == Cardinality({j \in 1..Len(rest) : rest[j].size < Head(c).size})
       IN  SubSeq(rest, 1, k) \o <<Head(c)>> \o SubSeq(rest, k + 1, Len(rest))

sort_ascending_reversed(c) ==
  LET a == sort_ascending(c)
  IN  [k \in 1..Len(a) |-> a[Len(a) + 1 - k]]

\* candidates.sort(key=lambda x: x[0], reverse=True): the sort is stable, so
\* candidates of one size keep their order
RECURSIVE sort_reverse(_)
sort_reverse(c) ==
  IF c = <<>> THEN <<>>
  ELSE LET rest == sort_reverse(Tail(c))
           k    == Cardinality({j \in 1..Len(rest) : rest[j].size > Head(c).size})
       IN  SubSeq(rest, 1, k) \o <<Head(c)>> \o SubSeq(rest, k + 1, Len(rest))

\* the (size, tag) pairs of the article, main and div elements
candidates(doc) ==
  LET found == find_all(doc, 0, {"article", "main", "div"})
  IN  [k \in 1..Len(found) |->
         [size |-> Len(get_text(doc, found[k], <<>>)), tag |-> found[k]]]

\* soup.body: the first body element, None without one
body(doc) ==
  LET found == find_all(doc, 0, {"body"})
  IN  IF found = <<>> THEN NoElement ELSE found[1]

\* main = candidates[0][1] if candidates else soup.body or soup
main_region(doc) ==
  LET sorted == sort_reverse(candidates(doc))
  IN  IF sorted # <<>> THEN sorted[1].tag
      ELSE IF body(doc) # NoElement THEN body(doc)
      ELSE 0

\* the cleaned texts of the elements found, those of at most min_len characters
\* left out
paragraphs_of(doc, found, min_len) ==
  LET clean == [k \in 1..Len(found) |-> clean_paragraph(get_text(doc, found[k], <<" ">>))]
  IN  SelectSeq(clean, LAMBDA c : Len(c) > min_len)

is_ad_or_tracker(url) ==
  LET host == lower(urlparse(url).netloc)
  IN  \E b \in {<<"d", "o", "u", "b", "l", "e", "c", "l", "i", "c", "k">>,
                <<"a", "d", "s", "e", "r", "v", "i", "c", "e">>,
                <<"a", "d", "s", "y", "s", "t", "e", "m">>,
                <<"t", "r", "a", "c", "k", "i", "n", "g">>,
                <<"a", "n", "a", "l", "y", "t", "i", "c", "s">>,
                <<"p", "i", "x", "e", "l">>,
                <<"g", "o", "o", "g", "l", "e", "s", "y", "n", "d", "i", "c", "a", "t", "i", "o", "n">>} : Contains(host, b)

\* (label if label else href, href)
link_pair(label, href) ==
  [label |-> IF label # <<>> THEN label ELSE href, href |-> href]

\* the (label, href) pairs of the a elements with an href inside r; the hrefs of
\* the documents here are absolute, and urljoin leaves an absolute url as it is
links_of(doc, r) ==
  LET found == SelectSeq(find_all(doc, r, {"a"}), LAMBDA i : doc[i].attr # None)
      hrefs == [k \in 1..Len(found) |-> unwrap_generic_redirect(doc[found[k]].attr)]
      pairs == [k \in 1..Len(found) |-> link_pair(get_text(doc, found[k], <<" ">>), hrefs[k])]
  IN  SelectSeq(pairs, LAMBDA l : ~is_ad_or_tracker(l.href))

fetch_main_image_url(doc) ==
  LET og  == find_all(doc, 0, {"meta"})
      img == find_all(doc, 0, {"img"})
  IN  IF og # <<>> /\ doc[og[1]].attr \notin {None, <<>>} THEN doc[og[1]].attr
      ELSE IF img # <<>> /\ doc[img[1]].attr \notin {None, <<>>} THEN doc[img[1]].attr
      ELSE None

extract_title(doc) ==
  LET t == find_all(doc, 0, {"title"})
  IN  IF t # <<>> /\ doc[t[1]].text # <<>> THEN clean_paragraph(doc[t[1]].text)
      ELSE None

\* the paragraphs of the pre elements: of their p elements when they have
\* some, of their own text otherwise
RECURSIVE pre_paragraphs(_, _)
pre_paragraphs(doc, pres) ==
  IF pres = <<>> THEN <<>>
  ELSE LET ps == find_all(doc, Head(pres), {"p"})
       IN  (IF ps # <<>> THEN paragraphs_of(doc, ps, 5)
            ELSE paragraphs_of(doc, <<Head(pres)>>, 20))
           \o pre_paragraphs(doc, Tail(pres))

\* extract_single_page(html, base); main is the region chosen, NoElement when the
\* document has a pre element and no region is chosen
extract_single_page(doc) ==
  LET pre_blocks == find_all(doc, 0, {"pre"})
      main       == IF pre_blocks # <<>> THEN NoElement ELSE main_region(doc)
  IN  [paragraphs |-> IF pre_blocks # <<>> THEN pre_paragraphs(doc, pre_blocks)
                      ELSE paragraphs_of(doc, find_all(doc, main, {"p", "li"}), 20),
       links      |-> links_of(doc, IF pre_blocks # <<>> THEN 0 ELSE main),
       main_image |-> fetch_main_image_url(doc),
       title      |-> extract_title(doc),
       main       |-> main]

\* a specification of the extraction alone: extract_single_page called once
\* on a document of up to three candidate regions in a row, with or without a
\* body, or on one of a few documents with regions inside regions, removed
\* elements, or a pre element

Text(c, n) == [i \in 1..n |-> c]

Regions ==
  {[tag |-> "div", text |-> Text("a", 50)],
   [tag |-> "div", text |-> Text("b", 300)],
   [tag |-> "div", text |-> Text("c", 120)],
   [tag |-> "article", text |-> Text("d", 300)],
   [tag |-> "main", text |-> Text("e", 120)]}

\* the regions rs in a row, each holding one paragraph, then a paragraph and a
\* link outside every region
RegionsInARow(has_body, rs) ==
  LET top == IF has_body THEN 1 ELSE 0
  IN  (IF has_body THEN <<Node("body", 0, <<>>, None)>> ELSE <<>>)
      \o concat([k \in 1..Len(rs) |->
                   <<Node(rs[k].tag, top, <<" ">>, None),
                     Node("p", top + 2 * k - 1, <<" ">> \o rs[k].text \o <<"\n">>, None)>>])
      \o <<Node("p", top, Text("z", 30), None),
           Node("a", top, <<"x">>, UrlB)>>

OtherDocuments ==
  {\* a region inside a region: the outer one holds more text
   <<Node("body", 0, <<>>, None), Node("title", 0, <<" ", "T", " ">>, None),
     Node("div", 1, <<>>, None), Node("p", 3, Text("a", 50), None),
     Node("article", 3, <<>>, None), Node("p", 5, Text("b", 300), None),
     Node("a", 5, <<>>, UrlB), Node("img", 1, <<>>, UrlR)>>,
   \* a region that holds nothing but another region: both of one size
   <<Node("div", 0, <<>>, None), Node("article", 1, <<>>, None),
     Node("li", 2, Text("a", 50), None), Node("meta", 0, <<>>, UrlR)>>,
   \* the longest region stands in a removed element
   <<Node("body", 0, <<>>, None), Node("nav", 1, <<>>, None),
     Node("div", 2, <<>>, None), Node("p", 3, Text("b", 300), None),
     Node("div", 1, <<>>, None), Node("p", 5, Text("a", 50), None),
     Node("a", 5, <<"x">>, Https \o <<"p", "i", "x", "e", "l", ".", "x">>)>>,
   \* a pre element with paragraphs, and one without
   <<Node("body", 0, <<>>, None), Node("div", 1, <<>>, None),
     Node("pre", 2, <<>>, None), Node("p", 3, Text("a", 6), None),
     Node("p", 3, Text("b", 5), None),
     Node("pre", 1, Text("c", 21), None), Node("a", 1, <<"x">>, UrlB)>>}

Documents ==
  {RegionsInARow(b, rs) :
     b \in BOOLEAN,
     rs \in {<<>>} \cup {<<x>> : x \in Regions}
                   \cup {<<x, y>> : x, y \in Regions}
                   \cup {<<x, y, z>> : x, y, z \in Regions}}
    \cup OtherDocuments

ExtractSinglePageCall ==
  /\ call = NoCall
  /\ \E doc \in Documents :
       call' = [fn |-> "extract_single_page", in |-> doc, out |-> extract_single_page(doc)]
  /\ UNCHANGED <<storeVars, lastSave, recent, mainVars, pc, chain, caller, ss, sp, cmd>>

NextExtract == ExtractSinglePageCall

SpecExtract == Init /\ [][NextExtract]_vars

\* a specification of the opening of a bookmark and of the reading session
\* that follows: the bookmark file holds one record, of a document of two
\* pages and six links, of one page and no link, of no paragraph, or of two
\* pages under a title that ends in "|", with a block that is negative, a page
\* of the document, or past its end

StoredBlocks == {0 - 1, 0, 1, 2, 7}

InitOpen ==
  /\ \E u \in {UrlA, UrlB, UrlB2, UrlC2}, b \in StoredBlocks :
       bmFile = write_bookmarks(<<[title |-> None, url |-> u, block |-> b]>>)
  /\ histFile = <<>>
  /\ lastSave = <<>>
  /\ recent = <<>>
  /\ call = NoCall
  /\ mode = "home"
  /\ last_search_query = None
  /\ pc = "home"
  /\ chain = "none"
  /\ caller = "none"
  /\ ss = NoSearch
  /\ sp = NoPage
  /\ cmd = NoCmd

NextOpen ==
  \/ HomeBookmarks
  \/ BmSelect
  \/ ReadLinks
  \/ ReadNext
  \/ ReadNextPart
  \/ ReadPrev
  \/ LinksText
  \/ LinksNext
  \/ LinksPrev
  \/ LinksOpen

SpecOpen == InitOpen /\ [][NextOpen]_vars

\* a specification of saves on a bookmark file that was not written by this
\* version of the program: one or two lines in the three formats load_bookmarks
\* reads, several of them for the same url

LegacyLines ==
  {<<"|", "|", "|", "u", "|", "|", "|", "2">>,
   <<"T", "|", "|", "|", "u", "|", "|", "|", "5">>,
   <<"u", "|", "|", "|", "1">>,
   <<"u">>,
   <<"v", "|", "|", "|", "1">>}

InitLegacy ==
  /\ bmFile \in {<<x>> : x \in LegacyLines} \cup {<<x, y>> : x, y \in LegacyLines}
  /\ histFile = <<>>
  /\ lastSave = [u \in BmUrls |-> 0 - 1]
  /\ recent = <<>>
  /\ call = NoCall
  /\ mode = "home"
  /\ last_search_query = None
  /\ pc = "home"
  /\ chain = "none"
  /\ caller = "none"
  /\ ss = NoSearch
  /\ sp = NoPage
  /\ cmd = NoCmd

SpecLegacy == InitLegacy /\ [][NextBm]_vars

\* a specification of the continuation probe alone: try_load_next_part called
\* once, on a url made of up to three pieces after the host (page segments
\* with one and two digits, a page segment without number, another segment, a
\* slash) with one paragraph accumulated, or on a url whose continuation the
\* web answers with up to three paragraphs accumulated

UrlPieces ==
  {PageSeg \o <<"2">>, PageSeg \o <<"9">>, PageSeg \o <<"1", "9">>, PageSeg,
   <<"/", "x">>, <<"/">>}

ProbedUrls ==
  {UrlA \o concat(ps) :
     ps \in {<<>>} \cup {<<x>> : x \in UrlPieces}
                   \cup {<<x, y>> : x, y \in UrlPieces}
                   \cup {<<x, y, z>> : x, y, z \in UrlPieces}}

Accumulated ==
  LET ps == {P1, P3, P4}
  IN  {<<x>> : x \in ps} \cup {<<x, y>> : x, y \in ps} \cup {<<x, y, z>> : x, y, z \in ps}

PartInputs ==
  {[url |-> u, paragraphs |-> <<P1>>] : u \in ProbedUrls}
    \cup {[url |-> u, paragraphs |-> a] : u \in {UrlA, UrlA2, UrlB, UrlC}, a \in Accumulated}

\* probed is the url handed to fetch, and fetched tells whether the request
\* was answered; a request that fails returns None, one that is answered
\* returns the five values unless nothing was extracted or nothing is new
TryLoadNextPartCall ==
  /\ call = NoCall
  /\ \E i \in PartInputs, fetched \in BOOLEAN :
       LET rs == try_load_next_part(i.url, i.paragraphs)
       IN  /\ fetched => next_part_url(i.url) \in WebUrls
           /\ call' = [fn |-> "try_load_next_part", in |-> i,
                       out |-> [probed |-> next_part_url(i.url),
                                fetched |-> fetched,
                                result |-> IF fetched /\ rs # {NoPart}
                                           THEN CHOOSE r \in rs : r # NoPart
                                           ELSE NoPart]]
  /\ UNCHANGED <<storeVars, lastSave, recent, mainVars, pc, chain, caller, ss, sp, cmd>>

NextPart == TryLoadNextPartCall

SpecPart == Init /\ [][NextPart]_vars

\* a specification of a reading session with continuation merges over a
\* bookmark file that existed before: no line, or one or two lines out of a
\* record of the page read, legacy lines for its continuation, and a record of
\* the continuation after that; the page read is one whose continuations have
\* plain titles, one whose continuation has a title that ends in "|", or that
\* continuation itself

MergeLines ==
  {bookmark_record_line([title |-> <<"A">>, url |-> UrlA, block |-> 0]),
   UrlA2,
   UrlA2 \o Delim \o <<"1">>,
   UrlC2,
   bookmark_record_line([title |-> None, url |-> UrlA3, block |-> 0])}

InitMerge ==
  /\ bmFile \in {<<>>} \cup {<<x>> : x \in MergeLines} \cup {<<x, y>> : x, y \in MergeLines}
  /\ \E u \in {UrlA, UrlC, UrlC2} :
       /\ sp = Opened(u, "direct", 0, Doc(u), "home_url", NoSearch)
       /\ histFile = add_history(<<>>, Doc(u).title, u)
  /\ lastSave = <<>>
  /\ recent = <<>>
  /\ call = NoCall
  /\ mode = "page"
  /\ last_search_query = None
  /\ pc = "reading"
  /\ chain = "page"
  /\ caller = "none"
  /\ ss = NoSearch
  /\ cmd = Other

\* saves are taken while the file stays within one line more than it started with
NextMerge ==
  \/ (ReadSave /\ Len(bmFile') <= MaxBmLines + 1)
  \/ ReadNext
  \/ ReadNextPart
  \/ ReadPrev

SpecMerge == InitMerge /\ [][NextMerge]_vars

\* ------------------------------------------------------------------ claims

NoTwoWithSameUrl(items) ==
  \A i, j \in 1..Len(items) : items[i].url = items[j].url => i = j

\* C1: from an empty store, after any sequence of save_bookmark calls,
\* load_bookmarks returns at most one record per url, and the block index of
\* the record of a url that was saved is the one of the latest save of that url
C1_UpsertUniqueness ==
  LET b == load_bookmarks(bmFile)
  IN  /\ NoTwoWithSameUrl(b)
      /\ \A i \in 1..Len(b) :
           b[i].url \in BmUrls => b[i].block = lastSave[b[i].url]

\* the position of url in the list of visited urls, 0 if it is not there
PosIn(list, url) ==
  IF InSeq(url, list) THEN CHOOSE i \in 1..Len(list) : list[i] = url ELSE 0

\* C2: from an empty history, after any sequence of add_history visits, the
\* stored history has at most CHRONOLOGY_LENGTH entries, no two of them with the
\* same url, and lists the visited urls it holds latest visit first
C2_HistoryBoundDedupOrder ==
  LET h == load_history(histFile)
  IN  /\ Len(h) <= CHRONOLOGY_LENGTH
      /\ NoTwoWithSameUrl(h)
      /\ \A i, j \in 1..Len(h) :
           (i < j /\ InSeq(h[i].url, recent) /\ InSeq(h[j].url, recent))
             => PosIn(recent, h[i].url) < PosIn(recent, h[j].url)

\* ---- the states of the navigation machine, read off main's mode and the prompt

InHome == mode = "home" /\ pc = "home"

\* the search mode at one of search_and_select's prompts
InSearch == mode = "search" /\ pc \in {"search_list", "ack_no_results"}

\* the bookmarks mode at one of bookmark_manager's prompts
InBookmarks == mode = "bookmarks" /\ caller = "main" /\ pc \in {"bm_list", "ack_no_bookmarks"}

\* one of chronology_manager's prompts
InHistory == pc \in {"chron_list", "ack_no_history"}

\* "b" was just typed in a reading session of origin o
JustBack(o) == cmd.name = "b" /\ cmd.origin = o

\* C3: a back command typed in the text view or the link view of a reading
\* session leaves the machine in Search when the session's origin is search, in
\* Bookmarks when it is bm, and in Home when it is direct or page (a session
\* opened by following a link)
C3_BackDestination ==
  /\ JustBack("search") => InSearch
  /\ JustBack("bm") => InBookmarks
  /\ (JustBack("direct") \/ JustBack("page")) => InHome

\* C4: a back command typed in a reading session of origin chronology leaves the
\* machine at the History list, whether the session was opened from History
\* chosen at Home, from History chosen in the Search list, or by "bc"
C4_BackToHistory ==
  JustBack("chronology") => InHistory

C6_QuitFromEveryState ==
  cmd.name = "q" => pc = "quit"

\* C6: "q" typed at the home prompt, in the result list, in the text view or in
\* the link view ends the process; "q" typed in the bookmark list or in the
\* history list closes the list and the prompt that opened it comes back
C6_QuitOrCloseList ==
  cmd.name = "q" =>
    /\ cmd.from \in {"home", "search_list", "reading_text", "reading_links"} => pc = "quit"
    /\ (cmd.from \in {"bm_list", "chron_list"} /\ cmd.caller \in {"main", "home"}) => InHome
    /\ (cmd.from \in {"bm_list", "chron_list"} /\ cmd.caller = "search") =>
         (mode = "search" /\ pc = "search_list")
    /\ (cmd.from = "bm_list" /\ cmd.caller = "page") => pc = "reading"
    /\ cmd.from \in {"home", "search_list", "reading_text", "reading_links",
                     "bm_list", "chron_list"}

\* "q" typed in the bookmark list that a reading session opened: the session
\* is on screen again
C6_Witness ==
  /\ cmd.name = "q"
  /\ cmd.from = "bm_list"
  /\ cmd.caller = "page"
  /\ pc = "reading"

\* C7: no failure of a network request ends the process
C7_NetworkFailureRecoverable ==
  pc # "crashed"

\* C8 as the specification states it: after the error of a failed open, the
\* prompt at which the open was asked for is back
C8_BackToPriorMode ==
  cmd.name = "ack_open_error" =>
    /\ cmd.from = "search_list" => pc = "search_list"
    /\ cmd.from = "bm_list" => pc = "bm_list"
    /\ cmd.from = "chron_list" => pc = "chron_list"
    /\ cmd.from \in {"reading_text", "reading_links"} => pc = "reading"

\* C8: an open that fails shows its error and waits for ENTER; after ENTER the
\* machine is in Home, whatever prompt the open was asked at, and the process
\* runs on
C8_OpenFailureGoesHome ==
  /\ cmd.name = "open_failed" <=> pc = "ack_open_error"
  /\ cmd.name = "ack_open_error" => InHome

\* a result picked in the result list could not be opened: Home, not the list
C8_Witness ==
  /\ cmd.name = "ack_open_error"
  /\ cmd.from = "search_list"
  /\ InHome

\* the probe of try_load_next_part for the session f finds nothing to add: no
\* page at the next-part url, no paragraph in it, or only paragraphs f has
ProbeFindsNothing(f) ==
  \/ next_part_url(f.url) \notin WebUrls
  \/ not_in(Doc(next_part_url(f.url)).paragraphs, f.paragraphs) = <<>>

\* C9: when next is typed on the last page and the probe returns None (the
\* fetch failed, or it finds nothing to add), the session stays as it is in the
\* text view on its last page, and both stores stay as they are
C9_ProbeNoneChangesNothing ==
  [][(ReadNextPart /\ (cmd'.name = "next_none" \/ ProbeFindsNothing(sp))) =>
       /\ pc' = "reading"
       /\ sp' = sp
       /\ sp.mode = "text"
       /\ sp.page = Len(sp.text_pages) - 1
       /\ bmFile' = bmFile
       /\ histFile' = histFile]_vars

\* next was typed on the last page of the merged document, whose next part
\* holds only a paragraph already read
C9_Witness ==
  /\ cmd.name = "next_none"
  /\ pc = "reading"
  /\ sp.url = UrlA2
  /\ next_part_url(sp.url) \in WebUrls
  /\ ProbeFindsNothing(sp)

IsPrefix(a, b) == Len(a) <= Len(b) /\ SubSeq(b, 1, Len(a)) = a

\* C10: when next is typed on the last page and the probe succeeds, the session
\* stays in the text view with its origin and its page index, its url is the
\* next-part url, its paragraphs are the old ones followed by at least one new
\* one, and its pages are built from that list
C10_ProbeSuccessExtends ==
  [][(ReadNextPart /\ cmd'.name = "next_part") =>
       /\ pc' = "reading"
       /\ sp'.mode = "text"
       /\ sp'.origin = sp.origin
       /\ sp'.page = sp.page
       /\ sp'.url = next_part_url(sp.url)
       /\ IsPrefix(sp.paragraphs, sp'.paragraphs)
       /\ Len(sp'.paragraphs) > Len(sp.paragraphs)
       /\ sp'.text_pages = build_text_pages(sp'.paragraphs)]_vars

\* the second part of the document was merged while page 2 was on screen
C10_Witness ==
  /\ cmd.name = "next_part"
  /\ pc = "reading"
  /\ sp.url = UrlA2
  /\ sp.page = 1
  /\ Len(sp.paragraphs) = 4

\* C11: after a successful merge the bookmark store holds a record of the
\* session's new url, and the history record of the session, the first of the
\* list, bears the new url too
C11_StoresPointAtNewUrl ==
  cmd.name = "next_part" =>
    /\ is_bookmarked(bmFile, sp.url)
    /\ load_history(histFile) # <<>>
    /\ load_history(histFile)[1].url = sp.url

\* the paragraphs read back from pages: the lines of the pages in order, each
\* run of lines that a blank line closes joined by single spaces
RECURSIVE recovered_from(_, _)
recovered_from(lines, current) ==
  IF lines = <<>> THEN <<>>
  ELSE IF Head(lines) = <<>>
       THEN <<join_words(current)>> \o recovered_from(Tail(lines), <<>>)
       ELSE recovered_from(Tail(lines), Append(current, Head(lines)))

Recovered(pages) == recovered_from(concat(pages), <<>>)

\* the paragraphs of the list with their whitespace normalised
Normalized(paragraphs) ==
  [i \in 1..Len(paragraphs) |-> clean_paragraph(paragraphs[i])]

\* C12: the paragraphs read back from the pages of build_text_pages are the
\* paragraphs of the pre-split list with their whitespace normalised, one for
\* one and in the same order
C12_PaginationConservation ==
  call.fn = "build_text_pages" =>
    Recovered(call.out.pages) = Normalized(processed(call.in.paragraphs, call.in.max_chars))

\* a paragraph cut in chunks, a paragraph wrapped on several lines and several
\* pages, all in one call
C12_Witness ==
  /\ call.fn = "build_text_pages"
  /\ Len(call.out.pages) > 1
  /\ Len(call.out.processed) > Len(call.in.paragraphs)
  /\ \E i \in 1..Len(call.out.pages) :
       \E j \in 1..(Len(call.out.pages[i]) - 1) :
          call.out.pages[i][j] # <<>> /\ call.out.pages[i][j + 1] # <<>>
  /\ Recovered(call.out.pages) = Normalized(call.out.processed)

\* the chunks of p by position: chunk k is the characters (k-1)*n+1 .. k*n of p,
\* the last one ending with p; p itself when it is no longer than n
ChunksByPosition(p, n) ==
  IF Len(p) <= n THEN <<p>>
  ELSE [k \in 1..((Len(p) + n - 1) \div n) |->
          SubSeq(p, (k - 1) * n + 1, IF k * n < Len(p) THEN k * n ELSE Len(p))]

Lengths(list) == [i \in 1..Len(list) |-> Len(list[i])]

\* C13: the pre-split list is the paragraphs in order, each one longer than
\* MAX_CHARS_PER_BLOCK replaced by its consecutive chunks of that length (the
\* last one may be shorter), which concatenate back to it, the others as they
\* were; nothing in the list is longer than MAX_CHARS_PER_BLOCK; 4500
\* characters under 2000 give chunks of 2000, 2000 and 500
C13_PreSplit ==
  call.fn = "build_text_pages" =>
    LET ps == call.in.paragraphs
        n  == call.in.max_chars
        by_paragraph == [i \in 1..Len(ps) |-> ChunksByPosition(ps[i], n)]
    IN  /\ call.out.processed = concat(by_paragraph)
        /\ \A i \in 1..Len(ps) :
             /\ concat(by_paragraph[i]) = ps[i]
             /\ \A k \in 1..(Len(by_paragraph[i]) - 1) : Len(by_paragraph[i][k]) = n
        /\ \A j \in 1..Len(call.out.processed) : Len(call.out.processed[j]) <= n
        /\ (ps = <<LongParagraph>> /\ n = 2000) =>
             Lengths(call.out.processed) = <<2000, 2000, 500>>

\* the paragraph of 4500 characters was cut under the limit of 2000, next to a
\* shorter paragraph left as it was
C13_Witness ==
  /\ call.fn = "build_text_pages"
  /\ call.in.paragraphs = <<TwoLines, LongParagraph>>
  /\ call.in.max_chars = 2000
  /\ call.out.processed[1] = TwoLines
  /\ Lengths(call.out.processed) = <<14, 2000, 2000, 500>>

\* C14: unwrap_generic_redirect applied to its own result returns that result
C14_NormalizerIdempotent ==
  call.fn = "unwrap_generic_redirect" =>
    unwrap_generic_redirect(call.out) = call.out

\* a wrapper whose destination is itself a wrapper was normalized: what came
\* out is neither the url given nor the inner destination, and it is on the
\* tracking domain
C14_Witness ==
  /\ call.fn = "unwrap_generic_redirect"
  /\ \E w \in Wrappers(Destinations) :
       /\ call.in = <<"h", "t", "t", "p", "s", ":">> \o WrapperHead \o quote(w)
       /\ unwrap_duckduckgo_redirect(call.in) = w
       /\ unwrap_duckduckgo_redirect(w) # w
  /\ call.out # call.in
  /\ Contains(urlparse(call.out).netloc, DdgHost)
  /\ unwrap_generic_redirect(call.out) = call.out

Typed == strip(call.in)

HasSchemeOrDot(t) ==
  Contains(t, <<"h", "t", "t", "p", ":", "/", "/">>) \/ Contains(t, Https)
    \/ Contains(t, <<".">>)

\* the reading session a url typed at Home opens, or the error of an open that
\* failed
OpenedDirect ==
  /\ mode = "page"
  /\ \/ pc = "ack_open_error"
     \/ pc = "reading" /\ sp.mode = "text" /\ sp.origin = "direct" /\ sp.page = 0

EnteredSearch == mode = "search" /\ last_search_query = Typed

RoutedByToken ==
  LET low == lower(Typed)
  IN  /\ low = <<"q">> => pc = "quit"
      /\ low = <<"b", "m">> => mode = "bookmarks" /\ pc \in {"bm_list", "ack_no_bookmarks"}
      /\ low = <<"c">> => pc \in {"chron_list", "ack_no_history"}

IsToken(t) == lower(t) \in {<<"q">>, <<"b", "m">>, <<"c">>}

\* C15 as stated: blank stays at Home, the tokens route, any other line with a
\* scheme or a dot opens a direct reading session at block 0, every remaining
\* line enters Search with that line as the query
C15_HomeRoutingAsStated ==
  (call.fn = "home" /\ pc # "home") =>
    /\ Typed # <<>>
    /\ IF IsToken(Typed) THEN RoutedByToken
       ELSE IF HasSchemeOrDot(Typed) THEN OpenedDirect
       ELSE EnteredSearch

\* the first result of "ifl <query>" opened, the query not stored
OpenedFirstResult ==
  /\ mode = "page"
  /\ last_search_query = None
  /\ \/ pc = "ack_open_error"
     \/ pc = "reading" /\ sp.mode = "text" /\ sp.origin = "search" /\ sp.page = 0

\* C15: a blank line, "s" and "ai <question>" leave the program at Home;
\* "ifl <query>" opens the first result of the query as a reading session of
\* origin search at block 0 and stores no query; "q", "bm" and "c" route to
\* quit, Bookmarks and History; any other line that starts with http:// or
\* https:// or holds a dot opens a reading session of origin direct at block 0;
\* every remaining line enters Search with that line as the query
C15_HomeRouting ==
  (call.fn = "home" /\ pc # "home") =>
    /\ Typed # <<>>
    /\ lower(Typed) # <<"s">>
    /\ ~startswith(Typed, <<"a", "i", " ">>)
    /\ IF startswith(lower(Typed), <<"i", "f", "l", " ">>)
         THEN OpenedFirstResult \/ pc = "crashed"
       ELSE IF IsToken(Typed) THEN RoutedByToken
       ELSE IF startswith(Typed, <<"h", "t", "t", "p", ":", "/", "/">>)
                 \/ startswith(Typed, Https) \/ Contains(Typed, <<".">>)
         THEN OpenedDirect
       ELSE EnteredSearch

\* a line with a dot and no scheme was typed and its page is open
C15_Witness ==
  /\ call.fn = "home"
  /\ Typed = <<"a", ".", "b">>
  /\ pc = "reading"
  /\ sp.url = UrlA
  /\ sp.origin = "direct"
  /\ sp.page = 0

\* the reading session a selection opens, with the origin and at the block given
OpensSession(url, origin, block) ==
  \/ pc' = "ack_open_error"
  \/ /\ pc' = "reading"
     /\ sp'.mode = "text"
     /\ sp'.url = url
     /\ sp'.origin = origin
     /\ sp'.page = block

\* C16: a number typed at the list of Bookmarks opens a reading session for the
\* url of a listed record, with origin bookmark, at the block index the record
\* stores; a number typed at the list of History opens one with origin history
\* at block 0
C16_SelectionOpensSession ==
  [][/\ BmSelect =>
          \E k \in 1..Len(load_bookmarks(bmFile)) :
             OpensSession(load_bookmarks(bmFile)[k].url, "bm",
                          load_bookmarks(bmFile)[k].block)
     /\ ChronSelect =>
          \E k \in 1..Len(load_history(histFile)) :
             OpensSession(load_history(histFile)[k].url, "chronology", 0)]_vars

\* the origin of the state machine an origin argument of show_page stands for:
\* "b" tests for "search", "bm" and "chronology", every other value is direct
OriginTag(o) == IF o \in {"search", "bm", "chronology"} THEN o ELSE "direct"

\* C17: "l" keeps the origin of the session; a number typed in link view, when
\* the link opens, starts a session in text view at block 0 whose origin counts
\* as direct; "b" typed in a session opened from a link leads to Home
C17_LinkSession ==
  [][/\ ReadLinks => sp'.mode = "links" /\ sp'.origin = sp.origin /\ sp'.url = sp.url
     /\ (LinksOpen /\ pc' = "reading") =>
          /\ sp'.mode = "text"
          /\ sp'.page = 0
          /\ OriginTag(sp'.origin) = "direct"
          /\ \E l \in 1..Len(sp.links) : sp'.url \in resolve_redirect(sp.links[l].url)
     /\ ((ReadBack \/ ReadBackHome) /\ sp.via = "link") => pc' = "home"]_vars

\* "b" was typed in a session opened from a link and the program is at Home
C17_Witness ==
  /\ cmd.name = "b"
  /\ cmd.via = "link"
  /\ OriginTag(cmd.origin) = "direct"
  /\ pc = "home"

\* C18: every bookmark record of the page being read holds an index of one of
\* its text pages
C18_SavedIndexIsTextPage ==
  pc = "reading" =>
    \A i \in 1..Len(load_bookmarks(bmFile)) :
       load_bookmarks(bmFile)[i].url = sp.url =>
         /\ 0 <= load_bookmarks(bmFile)[i].block
         /\ load_bookmarks(bmFile)[i].block < Len(sp.text_pages)

\* C19: when extract_pdf_text gives one of its three messages, the open ends in
\* the text view of a reading session whose only paragraph is that message
C19_PdfFailureShowsSentinel ==
  [][(HomeOpenPdf /\ call'.out \in {<<PdfFetchError>>, <<PdfParseError>>, <<PdfNoText>>}) =>
       /\ pc' = "reading"
       /\ sp'.mode = "text"
       /\ sp'.paragraphs = call'.out
       /\ Len(sp'.text_pages) = 1]_vars

\* the lines of a list but the one at i
WithoutLine(lines, i) == SubSeq(lines, 1, i - 1) \o SubSeq(lines, i + 1, Len(lines))

\* the number of fields of a line
Fields(line) == Len(split(strip(line), Delim))

\* C20: a load of either store raises nothing; a file that cannot be read
\* loads as the empty list; the records come in the order of their lines, and
\* a line with too many fields (for the history, any line that has not two)
\* changes nothing for the other lines
C20_LoadNeverFails ==
  call.fn \in {"load_bookmarks", "load_history"} =>
    LET lines == call.in.lines
        load(ls) == IF call.fn = "load_bookmarks" THEN load_bookmarks(ls)
                    ELSE load_history(ls)
        malformed(l) == IF call.fn = "load_bookmarks" THEN Fields(l) > 3
                        ELSE Fields(l) # 2
    IN  /\ ~call.out.raised
        /\ ~call.in.readable => call.out.items = <<>>
        /\ call.in.readable =>
             /\ call.out.items = concat([i \in 1..Len(lines) |-> load(<<lines[i]>>)])
             /\ \A i \in 1..Len(lines) :
                  malformed(lines[i]) => call.out.items = load(WithoutLine(lines, i))

\* the lines of a bookmark file that give a record: not blank, at most three fields
RecordLines(lines) ==
  SelectSeq(lines, LAMBDA l : strip(l) # <<>> /\ Fields(l) <= 3)

\* the k-th field of a line
Field(line, k) == split(strip(line), Delim)[k]

\* C21: load_bookmarks gives one record for each non-blank line of up to three
\* fields, in file order: title|||url|||block gives (title or none, url, block),
\* url|||block gives (none, url, block), url alone gives (none, url, 0); a block
\* that is no number reads as 0; nothing is deduplicated, so the number of
\* records is the number of such lines
C21_LoadByFieldCount ==
  (call.fn = "load_bookmarks" /\ call.in.readable) =>
    LET kept  == RecordLines(call.in.lines)
        items == call.out.items
    IN  /\ Len(items) = Len(kept)
        /\ \A i \in 1..Len(kept) :
             LET l == kept[i]
             IN  /\ Fields(l) = 3 =>
                      /\ items[i].title = (IF Field(l, 1) = <<>> THEN None ELSE Field(l, 1))
                      /\ items[i].url = Field(l, 2)
                      /\ items[i].block = int_or_zero(Field(l, 3))
                 /\ Fields(l) = 2 =>
                      /\ items[i].title = None
                      /\ items[i].url = Field(l, 1)
                      /\ items[i].block = int_or_zero(Field(l, 2))
                 /\ Fields(l) = 1 =>
                      /\ items[i].title = None
                      /\ items[i].url = Field(l, 1)
                      /\ items[i].block = 0

\* a file of a new-format line, a legacy line and a titleless line, all three
\* for the same url, has loaded as three records
C21_Witness ==
  /\ call.fn = "load_bookmarks"
  /\ call.in.readable
  /\ Len(call.in.lines) = 3
  /\ Fields(call.in.lines[1]) = 3
  /\ Fields(call.in.lines[2]) = 2
  /\ Len(call.out.items) = 3
  /\ \A i \in 1..3 : call.out.items[i].url = <<"u">>
  /\ call.out.items[1].block = 1
  /\ call.out.items[2].block = 0
  /\ call.out.items[3].block = 5

\* the remaining article, main and div elements of a document
Candidates(doc) ==
  {i \in decompose(doc) : doc[i].tag \in {"article", "main", "div"}}

\* the length of the text an element shows
VisibleLength(doc, i) == Len(get_text(doc, i, <<>>))

\* C22: in a document without a pre element the region chosen is a candidate
\* (article, main or div) of the greatest visible-text length, and the first
\* such candidate in document order; without a candidate it is the body, and
\* without a body the whole document
C22_MainRegion ==
  (call.fn = "extract_single_page" /\ call.out.main # NoElement) =>
    LET doc == call.in
        m   == call.out.main
        C   == Candidates(doc)
    IN  /\ C # {} =>
             /\ m \in C
             /\ \A j \in C : VisibleLength(doc, j) <= VisibleLength(doc, m)
             /\ \A j \in C : VisibleLength(doc, j) = VisibleLength(doc, m) => m <= j
        /\ (C = {} /\ \E i \in 1..Len(doc) : doc[i].tag = "body") =>
             m = CHOOSE i \in 1..Len(doc) : doc[i].tag = "body"
        /\ (C = {} /\ ~\E i \in 1..Len(doc) : doc[i].tag = "body") => m = 0

\* three div candidates of 50, 300 and 120 characters: the second is chosen
C22_Witness ==
  /\ call.fn = "extract_single_page"
  /\ call.out.main # NoElement
  /\ LET doc == call.in
         C   == Ascending(Candidates(doc))
     IN  /\ Len(C) = 3
         /\ \A k \in 1..3 : doc[C[k]].tag = "div"
         /\ VisibleLength(doc, C[1]) = 50
         /\ VisibleLength(doc, C[2]) = 300
         /\ VisibleLength(doc, C[3]) = 120
         /\ call.out.main = C[2]

\* two candidates share the greatest length and the first of them is chosen
C22_WitnessTie ==
  /\ call.fn = "extract_single_page"
  /\ call.out.main # NoElement
  /\ \E j \in Candidates(call.in) :
       /\ j > call.out.main
       /\ VisibleLength(call.in, j) = VisibleLength(call.in, call.out.main)

\* C23: mode holds a value that main handles (home, search, bookmarks, page),
\* and the controller is never in the loop of main with no branch to enter:
\* until it has ended it waits for a command or runs one blocking operation
C23_ModeHasHandler ==
  /\ mode \in {"home", "search", "bookmarks", "page"}
  /\ pc # "spin"

\* C24: whenever the mode of main is search, the stored last search query is
\* defined (not None), also after back from a reading session that ifl opened
C24_SearchHasQuery ==
  mode = "search" => last_search_query # None

\* C25: a bookmark picked in the bookmark manager that was opened inside a
\* reading session opens a text session of origin bookmark for the url of the
\* bookmark, at its stored block (block 0 when the document has no such page),
\* however the surrounding session was entered; an open that fails is left aside
C25_BookmarkPickedInSession ==
  [][(BmSelect /\ caller = "page") =>
       \E k \in 1..Len(load_bookmarks(bmFile)) :
          LET b == load_bookmarks(bmFile)[k]
          IN  \/ pc' = "ack_open_error"
              \/ /\ pc' = "reading"
                 /\ sp'.mode = "text"
                 /\ sp'.origin = "bm"
                 /\ sp'.url \in resolve_redirect(b.url)
                 /\ sp'.page = IF 0 <= b.block /\ b.block < Len(sp'.text_pages)
                               THEN b.block ELSE 0]_vars

\* in a reading state there is at least one text page; the page shown in text
\* view is one of them; the page shown in link view is one of the link pages,
\* or 0 when there is no link
ReadingInRange ==
  pc = "reading" =>
    /\ Len(sp.text_pages) >= 1
    /\ sp.mode = "text" => (0 <= sp.page /\ sp.page < Len(sp.text_pages))
    /\ sp.mode = "links" =>
         IF sp.link_pages = <<>> THEN sp.page = 0
         ELSE 0 <= sp.page /\ sp.page <= Len(sp.link_pages) - 1

\* C26: every reading state has a non-empty list of text pages and, in text
\* view, 0 <= block < number of pages; a session opened with a start block out
\* of that range (a stale or negative bookmark index) opens at block 0; in
\* link view the page index is 0 without links and else at most the last link
\* page
C26_PageIndexInRange ==
  /\ []ReadingInRange
  /\ [][(BmSelect /\ pc' = "reading") =>
          \E k \in 1..Len(load_bookmarks(bmFile)) :
             LET b == load_bookmarks(bmFile)[k]
             IN  sp'.page = IF 0 <= b.block /\ b.block < Len(sp'.text_pages)
                            THEN b.block ELSE 0]_vars

\* a bookmark with a negative block has been opened: a document of two pages
\* shows its first
C26_Witness ==
  /\ pc = "reading"
  /\ sp.mode = "text"
  /\ sp.via = "bm"
  /\ sp.page = 0
  /\ Len(sp.text_pages) = 2
  /\ \E k \in 1..Len(load_bookmarks(bmFile)) :
       /\ load_bookmarks(bmFile)[k].url = sp.url
       /\ load_bookmarks(bmFile)[k].block < 0

\* the link view of a document of two link pages shows the second
C26_WitnessLinks ==
  /\ pc = "reading"
  /\ sp.mode = "links"
  /\ Len(sp.link_pages) = 2
  /\ sp.page = 1

\* the records of a bookmark file for one url
RecordsFor(file, url) ==
  SelectSeq(load_bookmarks(file), LAMBDA r : r.url = url)

\* C27: a save of a url that the bookmark file holds several records for
\* leaves at most one record for that url, and it carries the saved block
C27_SaveMergesDuplicates ==
  [][\A u \in BmUrls :
       (Len(RecordsFor(bmFile, u)) > 1 /\ lastSave'[u] # lastSave[u]) =>
          /\ Len(RecordsFor(bmFile', u)) <= 1
          /\ \A i \in 1..Len(RecordsFor(bmFile', u)) :
               RecordsFor(bmFile', u)[i].block = lastSave'[u]]_vars

\* the places of a url where a /page/<N> segment starts
PageSegments(url) ==
  {i \in 1..Len(url) :
     /\ i + Len(PageSeg) <= Len(url)
     /\ SubSeq(url, i, i + Len(PageSeg) - 1) = PageSeg
     /\ IsDigit(url[i + Len(PageSeg)])}

\* the prefix before the segment at i, followed by /page/<N+1> for its N
NextOfSegment(url, i) ==
  SubSeq(url, 1, i - 1) \o PageSeg \o str(DigitsVal(digit_run(url, i + Len(PageSeg))) + 1)

\* C28: the one url probed is, for a url with a /page/<N> segment, the prefix
\* before that segment followed by /page/<N+1>, N and the prefix coming from
\* the same segment also when there are several; for a url without such a
\* segment, the url without trailing slash followed by /page/2
C28_ProbedUrl ==
  call.fn = "try_load_next_part" =>
    LET url == call.in.url
    IN  IF PageSegments(url) # {}
        THEN \E i \in PageSegments(url) : call.out.probed = NextOfSegment(url, i)
        ELSE call.out.probed = rstrip_slash(url) \o PageSeg \o <<"2">>

\* C29: a probe that was answered and extracted paragraphs returns None
\* exactly when every extracted paragraph is, character for character, one of
\* the accumulated paragraphs; otherwise the new list is the old list followed
\* by the extracted paragraphs that are not in the old list, each as often as
\* it was extracted and in the extracted order
C29_MergeByExactMatch ==
  (/\ call.fn = "try_load_next_part"
   /\ call.out.fetched
   /\ Doc(call.out.probed).paragraphs # <<>>) =>
    LET old       == call.in.paragraphs
        extracted == Doc(call.out.probed).paragraphs
        known(p)  == \E k \in 1..Len(old) : old[k] = p
    IN  /\ call.out.result = NoPart <=> \A k \in 1..Len(extracted) : known(extracted[k])
        /\ call.out.result # NoPart =>
             call.out.result.paragraphs = old \o SelectSeq(extracted, LAMBDA p : ~known(p))

\* one of the three extracted paragraphs was accumulated already, and the other
\* two, which are the same text, are both appended
C29_Witness ==
  /\ call.fn = "try_load_next_part"
  /\ call.out.fetched
  /\ call.in.paragraphs = <<P1, P3>>
  /\ Doc(call.out.probed).paragraphs = <<P4, P1, P4>>
  /\ call.out.result.paragraphs = <<P1, P3, P4, P4>>

\* every extracted paragraph was accumulated already and the probe returned None
C29_WitnessNone ==
  /\ call.fn = "try_load_next_part"
  /\ call.out.fetched
  /\ call.in.paragraphs = <<P4, P1, P3>>
  /\ Doc(call.out.probed).paragraphs = <<P3, P4>>
  /\ call.out.result = NoPart

\* C30: after a continuation merge the bookmark file holds no record for the
\* old url and one record for the new url, with the page shown as its block,
\* whether or not the old url was bookmarked
C30_MergeMovesBookmark ==
  [][(ReadNextPart /\ cmd'.name = "next_part") =>
       /\ RecordsFor(bmFile', sp.url) = <<>>
       /\ Len(RecordsFor(bmFile', sp'.url)) = 1
       /\ RecordsFor(bmFile', sp'.url)[1].block = sp'.page]_vars

\* C31: next inside the document of a bookmarked url leaves a bookmark of that
\* url, and the first record of the url carries the new page; p, and next
\* while the url is not bookmarked, leave the bookmark file as it is
C31_AdvanceRewritesBookmark ==
  [][/\ (ReadNext /\ is_bookmarked(bmFile, sp.url)) =>
          /\ sp'.page = sp.page + 1
          /\ RecordsFor(bmFile', sp.url) # <<>>
          /\ RecordsFor(bmFile', sp.url)[1].block = sp'.page
     /\ (ReadNext /\ ~is_bookmarked(bmFile, sp.url)) => bmFile' = bmFile
     /\ ReadPrev => bmFile' = bmFile]_vars

\* a step of a command that has show_page open a url
OpenStep ==
  \/ HomeOpenUrl
  \/ HomeIfl
  \/ SearchSelect
  \/ BmSelect
  \/ ChronSelect
  \/ LinksOpen
  \/ (ReadChronBack /\ Len(load_history(histFile)) >= 2)

\* C32: an open that fails changes neither the history file nor the bookmark
\* file; an open that succeeds has made the url opened the first entry of the
\* history when the first reading command is awaited
C32_VisitOnSuccessOnly ==
  [][OpenStep =>
       /\ pc' = "ack_open_error" => (histFile' = histFile /\ bmFile' = bmFile)
       /\ pc' = "reading" =>
            /\ load_history(histFile') # <<>>
            /\ load_history(histFile')[1].url = sp'.url]_vars

\* C33: add_history(title, url) on the history H leaves the record (title, url)
\* followed by the entries of H with another url, in their order, cut to
\* CHRONOLOGY_LENGTH entries
C33_AddHistoryResult ==
  [][AddHistoryCall =>
       LET H   == load_history(histFile)
           url == recent'[1]
       IN  \E t \in HistTitles :
              load_history(histFile') =
                Take(<<[title |-> t, url |-> url]>> \o SelectSeq(H, LAMBDA r : r.url # url),
                     CHRONOLOGY_LENGTH)]_vars

\* the bookmarks B2 are the bookmarks B after the first record for url took the
\* block and, if one is given, the title, or after one record for url was
\* added at the end when B has none; every other record as it was, in its place
SavedInto(B, B2, url, block_index, title) ==
  LET i == FirstWithUrl(B, url)
  IN  IF i # 0
      THEN /\ Len(B2) = Len(B)
           /\ B2[i] = [title |-> IF title # None THEN title ELSE B[i].title,
                       url   |-> url,
                       block |-> block_index]
           /\ \A j \in 1..Len(B) : j # i => B2[j] = B[j]
      ELSE B2 = Append(B, [title |-> title, url |-> url, block |-> block_index])

\* C34: save_bookmark on a url of the store changes only that record (block
\* replaced, title replaced or kept when none is given) and keeps its place; on
\* another url it adds one record at the end; the other records are unchanged
C34_SaveChangesOneRecord ==
  [][SaveBookmarkCall =>
       \A u \in BmUrls, b \in 0..MaxBlock, t \in BmTitles :
          bmFile' = save_bookmark(bmFile, u, b, t) =>
             SavedInto(load_bookmarks(bmFile), load_bookmarks(bmFile'), u, b, t)]_vars

\* the number of blank lines of a page: one closes each paragraph
BlankLines(page) == Cardinality({j \in 1..Len(page) : page[j] = <<>>})

\* C35: build_text_pages puts the paragraphs of the pre-split list on pages by
\* consecutive groups of PARAS_PER_PAGE, in order: n >= 1 paragraphs give
\* ceil(n / PARAS_PER_PAGE) pages, all of PARAS_PER_PAGE paragraphs but maybe
\* the last; an empty list gives one page with the one line "[No readable text]"
C35_PagesGroupParagraphs ==
  call.fn = "build_text_pages" =>
    LET pre   == call.out.processed
        n     == Len(pre)
        pages == call.out.pages
        k     == (n + PARAS_PER_PAGE - 1) \div PARAS_PER_PAGE
    IN  IF call.in.paragraphs = <<>>
        THEN pages = << <<NoReadableText>> >>
        ELSE /\ n >= 1
             /\ Len(pages) = k
             /\ \A i \in 1..k :
                  LET first == (i - 1) * PARAS_PER_PAGE + 1
                      last  == IF i * PARAS_PER_PAGE < n THEN i * PARAS_PER_PAGE ELSE n
                  IN  /\ pages[i] = lines_of(SubSeq(pre, first, last), call.in.cols)
                      /\ BlankLines(pages[i]) = last - first + 1
                      /\ i < k => BlankLines(pages[i]) = PARAS_PER_PAGE

\* a pre-split list of an odd number of paragraphs, more than one page long,
\* was paged: the last page holds fewer paragraphs than the others
C35_Witness ==
  /\ call.fn = "build_text_pages"
  /\ Len(call.out.processed) > 2 * PARAS_PER_PAGE
  /\ Len(call.out.processed) % PARAS_PER_PAGE # 0
  /\ Len(call.out.pages) * PARAS_PER_PAGE > Len(call.out.processed)
  /\ BlankLines(call.out.pages[1]) = PARAS_PER_PAGE
  /\ BlankLines(call.out.pages[Len(call.out.pages)]) < PARAS_PER_PAGE

\* the empty list was paged
C35_WitnessEmpty ==
  /\ call.fn = "build_text_pages"
  /\ call.in.paragraphs = <<>>
  /\ call.out.pages = << <<NoReadableText>> >>

\* the place of the k-th blank line of a page
BlankPlace(page, k) ==
  CHOOSE j \in 1..Len(page) :
    /\ page[j] = <<>>
    /\ Cardinality({i \in 1..j : page[i] = <<>>}) = k

\* the lines of a page between its (k-1)-th blank line and its k-th
LinesBeforeBlank(page, k) ==
  SubSeq(page, IF k = 1 THEN 1 ELSE BlankPlace(page, k - 1) + 1, BlankPlace(page, k) - 1)

\* the lines L hold the words ws in order, single-spaced, filled greedily
\* under width
GreedyLines(L, ws, width) ==
  /\ \A j \in 1..Len(L) : L[j] # <<>> /\ L[j] = join_words(words(L[j]))
  /\ concat([j \in 1..Len(L) |-> words(L[j])]) = ws
  /\ \A j \in 2..Len(L) : Len(L[j - 1]) + 1 + Len(words(L[j])[1]) > width
  /\ \A j \in 1..Len(L) :
       Len(L[j]) > width => (Len(words(L[j])) = 1 /\ Len(words(L[j])[1]) > width)

\* C37: the lines of each paragraph on a page are its words in order, filled
\* greedily: no line is empty, a word starts a new line only when it would make
\* the line, with one space before it, longer than the width, and a line is
\* longer than the width only if it is one word longer than the width; exactly
\* one blank line follows the lines of each paragraph
C37_GreedyWrapAndSeparator ==
  call.fn = "build_text_pages" /\ call.in.paragraphs # <<>> =>
    LET pre   == call.out.processed
        pages == call.out.pages
        width == IF call.in.cols < 10 THEN 10 ELSE call.in.cols
    IN  \A i \in 1..Len(pages) :
          LET first == (i - 1) * PARAS_PER_PAGE + 1
              held  == BlankLines(pages[i])
          IN  /\ held >= 1
              /\ first + held - 1 <= Len(pre)
              /\ pages[i][Len(pages[i])] = <<>>
              /\ \A k \in 1..held :
                   GreedyLines(LinesBeforeBlank(pages[i], k), words(pre[first + k - 1]), width)

\* a paragraph of six short words was wrapped on two lines of several words
\* under ten columns, and a word longer than the width stands alone on a line
C37_Witness ==
  /\ call.fn = "build_text_pages"
  /\ call.in.paragraphs = <<ManyWords, TwoLines, ManyWords>>
  /\ call.in.cols = NarrowCols
  /\ Len(call.out.pages) = 2
  /\ LinesBeforeBlank(call.out.pages[1], 1) =
       << <<"a", "b", " ", "a", "b", " ", "a", "b">>, <<"a", "b", " ", "a", "b", " ", "a", "b">> >>
  /\ LinesBeforeBlank(call.out.pages[1], 2) =
       << <<"a", "b">>, <<"c", "d", "e", "f", "g", "h", "i", "j", "k", "l", "m">> >>
  /\ Len(call.out.pages[1]) = 6

\* the urls that opening a result of the displayed page can end at
DisplayedUrls ==
  UNION {resolve_redirect(current_page[i].url) : i \in 1..Len(current_page)}

\* C36: in the result list the page index stays within 0 .. number of pages - 1,
\* next and p move it by one inside that range or not at all; a number opens a
\* result only if it is listed on the displayed page, and then the session reads
\* that result in the text view with origin search from block 0; a search that
\* finds nothing waits for ENTER and goes to Home
C36_SearchListNavigation ==
  /\ [](pc = "search_list" =>
          /\ ss.pages # <<>>
          /\ 0 <= ss.page_idx
          /\ ss.page_idx <= Len(ss.pages) - 1
          /\ current_page # <<>>)
  /\ [][/\ (pc = "search_list" /\ pc' = "search_list") =>
             /\ ss'.pages = ss.pages
             /\ ss'.page_idx \in {ss.page_idx - 1, ss.page_idx, ss.page_idx + 1}
        /\ (SearchNext \/ SearchPrev) => ss'.page_idx # ss.page_idx
        /\ (pc = "search_list" /\ pc' = "reading") =>
             /\ sp'.url \in DisplayedUrls
             /\ sp'.origin = "search"
             /\ sp'.mode = "text"
             /\ sp'.page = 0
             /\ sp'.sel = ss
        /\ pc = "ack_no_results" => (mode' = "home" /\ pc' = "home")]_vars
  /\ [](pc = "ack_no_results" => mode = "search")

\* the only result of the second page of the list was picked from that page
\* and is read from its first block
C36_Witness ==
  /\ pc = "reading"
  /\ sp.via = "search"
  /\ sp.sel.page_idx = 1
  /\ Len(sp.sel.pages) = 2
  /\ sp.url = UrlA
  /\ sp.origin = "search"
  /\ sp.mode = "text"
  /\ sp.page = 0

====
